---- MODULE Spec2Model ----
(***************************************************************************)
(* Model of the browser chat client (src/public/script.js, class           *)
(* AdvancedAIChat): the conversation store (chats, currentChatId), its     *)
(* write-through persistence in localStorage, the generation flag and the  *)
(* three gated remote operations (chat, image generation, image edit).     *)
(*                                                                         *)
(* Text is a sequence of one-character strings, so that length and         *)
(* truncation are computed as the code computes them.  A conversation      *)
(* identifier 'chat_' + Date.now() is represented by the clock value it    *)
(* is built from.  The Map of conversations is a sequence of conversation  *)
(* records in insertion order, keyed by the record's id.                   *)
(***************************************************************************)
EXTENDS Integers, Sequences, FiniteSets, TLC

VARIABLES
    app,            \* "boot": page loading, constructor not yet run;
                    \* "running"; "crashed": the constructor threw
    now,            \* value of Date.now()
    chats,          \* this.chats, in Map insertion order
    currentChatId,  \* this.currentChatId
    isGenerating,   \* this.isGenerating
    userApiKey,     \* this.userApiKey
    uploadedImage,  \* this.uploadedImage is set
    storage,        \* localStorage: ai_chats, current_chat_id, user_api_key
    inflight,       \* gated remote requests issued and not yet settled
    nDone,          \* gated remote requests settled or abandoned so far
    fresh,          \* the instance was constructed and no handler ran since
    formatArg,      \* the argument of the call of formatMessage under way
    formatted,      \* the text that call has arrived at
    step,           \* where that call stands; "idle": there is none
    request,        \* the HTTP request the server was handed last, if any
    exchange        \* what the server has done for it so far

\* the variables of a call of formatMessage
renderVars == <<formatArg, formatted, step>>

vars == <<app, now, chats, currentChatId, isGenerating, userApiKey,
          uploadedImage, storage, inflight, nDone, fresh, renderVars,
          request, exchange>>

-----------------------------------------------------------------------------
(* Bounds of the model *)

MaxClock == 2
MaxDone == 1

-----------------------------------------------------------------------------
(* Text constants of the program *)

NEW_CHAT == <<"N", "e", "w", " ", "C", "h", "a", "t">>
ELLIPSIS == <<".", ".", ".">>
GenerateImagePrefix == <<"G", "e", "n", "e", "r", "a", "t", "e", " ", "i", "m", "a", "g", "e", ":", " ">>
ImageTitlePrefix == <<"I", "m", "a", "g", "e", ":", " ">>
EditImagePrefix == <<"E", "d", "i", "t", " ", "i", "m", "a", "g", "e", ":", " ">>
EditedPrefix == <<"E", "d", "i", "t", "e", "d", ":", " ">>
GeneratedImageCaption == <<"G", "e", "n", "e", "r", "a", "t", "e", "d", " ", "I", "m", "a", "g", "e">>
ErrorPrefix == <<"E", "r", "r", "o", "r", ":", " ">>
ApiKeyInvalidMsg == <<"A", "P", "I", " ", "k", "e", "y", " ", "i", "n", "v", "a", "l", "i", "d", ".", " ", "P", "l", "e", "a", "s", "e", " ", "u", "p", "d", "a", "t", "e", " ", "y", "o", "u", "r", " ", "A", "P", "I", " ", "k", "e", "y", ".">>
RequestFailedMsg == <<"R", "e", "q", "u", "e", "s", "t", " ", "f", "a", "i", "l", "e", "d">>
RequestFailedColon == <<"R", "e", "q", "u", "e", "s", "t", " ", "f", "a", "i", "l", "e", "d", ":", " ">>
ImageGenFailedMsg == <<"I", "m", "a", "g", "e", " ", "g", "e", "n", "e", "r", "a", "t", "i", "o", "n", " ", "f", "a", "i", "l", "e", "d">>
ImageGenFailedColon == <<"I", "m", "a", "g", "e", " ", "g", "e", "n", "e", "r", "a", "t", "i", "o", "n", " ", "f", "a", "i", "l", "e", "d", ":", " ">>
ImageEditFailedMsg == <<"I", "m", "a", "g", "e", " ", "e", "d", "i", "t", "i", "n", "g", " ", "f", "a", "i", "l", "e", "d">>
ImageEditFailedColon == <<"I", "m", "a", "g", "e", " ", "e", "d", "i", "t", "i", "n", "g", " ", "f", "a", "i", "l", "e", "d", ":", " ">>

TitleLength == 25

-----------------------------------------------------------------------------
(* Inputs: what the user types, what the remote side answers *)

EmptyText == <<>>
TextHi == <<"H", "i">>
TextLong == <<"a", "b", "c", "d", "e", "f", "g", "h", "i", "j", "k", "l", "m", "n", "o", "p", "q", "r", "s", "t", "u", "v", "w", "x", "y", "z">>
PromptCat == <<"c", "a", "t">>
ReplyText == <<"O", "k", ".">>
HiBye == <<"H", "i", ".", "\n", "B", "y", "e">>
\* data.content of a successful chat response
ResponseTexts == {EmptyText, ReplyText, HiBye}
ImageUrl == <<"u", ".", "p", "n", "g">>
ServerError == <<"b", "a", "d">>
StatusText == <<"O", "o", "p", "s">>
ParseErrorMsg == <<"U", "n", "e", "x", "p", "e", "c", "t", "e", "d", " ", "t", "o", "k", "e", "n">>
NetworkErrorMsg == <<"F", "a", "i", "l", "e", "d", " ", "t", "o", " ", "f", "e", "t", "c", "h">>

\* messageInput.value.trim(): empty, or longer than a title
UserTexts == {EmptyText, TextLong}
\* imagePrompt / editPrompt .value.trim()
Prompts == {EmptyText, PromptCat}
\* credentials the user may have stored
ApiKeys == {"sk-or-v1-0123456789abcdef"}
Null == "null"
NoId == 0
\* a property that is not there, or a field JSON.stringify leaves out
Undefined == "undefined"
\* a text that is not there: what reading data.imageUrl gives when the
\* body has no such property
UndefinedText == <<Undefined>>
\* values of the modelSelect element
Models == {"deepseek/deepseek-chat", "openai/gpt-4"}

\* Date.now() values, hence the conversation identifiers that can exist
ChatIds == 1..MaxClock

\* What a remote call settles with.  kind "reject": fetch() rejects;
\* kind "badbody": response.json() rejects; kind "http": a parsed body with
\* the HTTP status, the success flag and the error text (<<>>: no error field).
Responses ==
    {[kind |-> "reject", status |-> 0, success |-> FALSE, error |-> <<>>],
     [kind |-> "badbody", status |-> 200, success |-> FALSE, error |-> <<>>],
     [kind |-> "http", status |-> 200, success |-> TRUE, error |-> <<>>],
     [kind |-> "http", status |-> 200, success |-> FALSE, error |-> ServerError],
     [kind |-> "http", status |-> 200, success |-> FALSE, error |-> <<>>],
     [kind |-> "http", status |-> 401, success |-> FALSE, error |-> ServerError],
     [kind |-> "http", status |-> 500, success |-> FALSE, error |-> ServerError],
     [kind |-> "http", status |-> 500, success |-> FALSE, error |-> <<>>]}

\* HTTP 200 with a body that reports success
Response200 ==
    [kind |-> "http", status |-> 200, success |-> TRUE, error |-> <<>>]

\* HTTP 401 with a parsed body
Response401 ==
    [kind |-> "http", status |-> 401, success |-> FALSE, error |-> ServerError]

\* The answers the behaviours are explored with: one success, one failure
\* that carries no parsed body, and the status the chat handler singles out
SettleResponses ==
    {r \in Responses : \/ r.kind = "reject"
                       \/ r.kind = "http" /\ r.status = 401
                       \/ r.kind = "http" /\ r.success}

-----------------------------------------------------------------------------
(* The Map of conversations *)

MapKeys(m) == {m[i].id : i \in DOMAIN m}
MapHas(m, k) == \E i \in DOMAIN m : m[i].id = k
MapGet(m, k) == m[CHOOSE i \in DOMAIN m : m[i].id = k]
\* Map.prototype.set: an existing key keeps its place and gets the new value
MapSet(m, k, v) ==
    IF MapHas(m, k)
    THEN [i \in DOMAIN m |-> IF m[i].id = k THEN v ELSE m[i]]
    ELSE Append(m, v)

RECURSIVE MapFromArray(_)
\* new Map(chatsArray.map(chat => [chat.id, chat]))
MapFromArray(arr) ==
    IF arr = <<>> THEN <<>>
    ELSE LET init == MapFromArray(SubSeq(arr, 1, Len(arr) - 1))
             last == arr[Len(arr)]
         IN MapSet(init, last.id, last)

-----------------------------------------------------------------------------
(* localStorage values *)

Absent == [kind |-> "absent"]
MalformedBlob == [kind |-> "text"]
\* JSON that is not an array ('{}', 'null', '7'): JSON.parse returns it and
\* chatsArray.map raises a TypeError inside the try block
NotArrayBlob == [kind |-> "json"]
\* An array element that is not a conversation record ({} or a number):
\* its id is undefined and it has no title, messages or createdAt
ForeignEntry == [id |-> NoId, title |-> <<>>, messages |-> <<>>, createdAt |-> 0]
\* JSON.stringify(Array.from(this.chats.values())): the Map keys are not
\* written, only the conversation records in insertion order; a record
\* holds strings and arrays of records of strings, which JSON.parse gives
\* back as they were written.  The keys are rebuilt by MapFromArray.
JSONstringify(chatsArray) == [kind |-> "array", items |-> chatsArray]
\* '[{}]': an array whose element is not a conversation record
ForeignArrayBlob == JSONstringify(<<ForeignEntry>>)
EmptyStorage == [ai_chats |-> Absent, current_chat_id |-> NoId, user_api_key |-> Null]

\* truncateText(text, maxLength)
truncateText(text, maxLength) ==
    IF Len(text) > maxLength THEN SubSeq(text, 1, maxLength) \o ELLIPSIS ELSE text

\* A saveChats() that would write the pointer but not the conversations
saveChatsPointerOnly(st, chs, cur) == [st EXCEPT !.current_chat_id = cur]

\* saveChats(): both keys are overwritten from memory
saveChats(st, chs, cur) ==
    [st EXCEPT !.ai_chats = JSONstringify(chs), !.current_chat_id = cur]

-----------------------------------------------------------------------------
(* Store operations.  S is the store a handler works on:                   *)
(* [chats, cur (currentChatId), st (localStorage)].                        *)

\* this.chats.get(this.currentChatId) is undefined: the next property
\* access raises a TypeError
NoCurrentChat(S) == ~MapHas(S.chats, S.cur)

\* currentChat.messages.push(msg)
pushMessage(chs, cur, msg) ==
    [i \in DOMAIN chs |->
        IF chs[i].id = cur
        THEN [chs[i] EXCEPT !.messages = Append(@, msg)]
        ELSE chs[i]]

\* An addMessage that would store a caption with every message
addMessageWithCaption(S, role, content, type) ==
    LET chs == pushMessage(S.chats, S.cur,
                   [role |-> role, content |-> content, type |-> type,
                    caption |-> content])
    IN [S EXCEPT !.chats = chs, !.st = saveChats(S.st, chs, S.cur)]

\* An addMessage that would push onto the first conversation of the map
addMessageToFirst(S, role, content, type) ==
    LET chs == pushMessage(S.chats, S.chats[1].id,
                   [role |-> role, content |-> content, type |-> type])
    IN [S EXCEPT !.chats = chs, !.st = saveChats(S.st, chs, S.cur)]

\* addMessage(role, content, type), when the current conversation exists
addMessage(S, role, content, type) ==
    LET chs == pushMessage(S.chats, S.cur,
                   [role |-> role, content |-> content, type |-> type])
    IN [S EXCEPT !.chats = chs, !.st = saveChats(S.st, chs, S.cur)]

\* addImageMessage(imageUrl, caption, role), when the current conversation exists
addImageMessage(S, imageUrl, caption, role) ==
    LET chs == pushMessage(S.chats, S.cur,
                   [role |-> role, content |-> imageUrl, type |-> "image",
                    caption |-> caption])
    IN [S EXCEPT !.chats = chs, !.st = saveChats(S.st, chs, S.cur)]

\* updateChatTitleFromFirstMessage(firstMessage), when the current
\* conversation exists
updateChatTitleFromFirstMessage(S, firstMessage) ==
    LET currentChat == MapGet(S.chats, S.cur)
    IN IF Len(currentChat.messages) = 2 /\ currentChat.title = NEW_CHAT
       THEN LET newTitle == truncateText(firstMessage, TitleLength)
                chs == [i \in DOMAIN S.chats |->
                           IF S.chats[i].id = S.cur
                           THEN [S.chats[i] EXCEPT !.title = newTitle]
                           ELSE S.chats[i]]
            IN [S EXCEPT !.chats = chs, !.st = saveChats(S.st, chs, S.cur)]
       ELSE S

\* createNewChat() at clock value t
createNewChat(S, t) ==
    LET chatId == t
        chat == [id |-> chatId, title |-> NEW_CHAT, messages |-> <<>>,
                 createdAt |-> t]
        chs == MapSet(S.chats, chatId, chat)
    IN [S EXCEPT !.chats = chs, !.cur = chatId,
                 !.st = saveChats(S.st, chs, chatId)]

\* A loadChats() that would not create a conversation for an empty mapping
loadChatsNoBootstrap(S, t) ==
    LET loaded == IF S.st.ai_chats.kind = "array"
                  THEN MapFromArray(S.st.ai_chats.items)
                  ELSE <<>>
    IN [S EXCEPT !.chats = loaded,
                 !.cur = IF Len(loaded) > 0 THEN loaded[1].id ELSE NoId]

\* loadChats() at clock value t; S is the freshly constructed instance
\* (chats empty, currentChatId null).  An absent blob skips the parse, a
\* blob that is not JSON makes JSON.parse throw into the catch.
loadChats(S, t) ==
    LET savedChats == S.st.ai_chats
        savedCurrentChat == S.st.current_chat_id
        loaded == IF savedChats.kind = "array"
                  THEN MapFromArray(savedChats.items)
                  ELSE <<>>
    IN IF savedCurrentChat # NoId /\ MapHas(loaded, savedCurrentChat)
       THEN [S EXCEPT !.chats = loaded, !.cur = savedCurrentChat]
       ELSE IF Len(loaded) > 0
       THEN [S EXCEPT !.chats = loaded, !.cur = loaded[1].id]
       ELSE createNewChat([S EXCEPT !.chats = loaded], t)

\* A clearCurrentChat() that would also put the sentinel title back
clearCurrentChatAndTitle(S) ==
    IF MapHas(S.chats, S.cur)
    THEN LET chs == [i \in DOMAIN S.chats |->
                        IF S.chats[i].id = S.cur
                        THEN [S.chats[i] EXCEPT !.messages = <<>>,
                                                !.title = NEW_CHAT]
                        ELSE S.chats[i]]
         IN [S EXCEPT !.chats = chs, !.st = saveChats(S.st, chs, S.cur)]
    ELSE S

\* clearCurrentChat()
clearCurrentChat(S) ==
    IF MapHas(S.chats, S.cur)
    THEN LET chs == [i \in DOMAIN S.chats |->
                        IF S.chats[i].id = S.cur
                        THEN [S.chats[i] EXCEPT !.messages = <<>>]
                        ELSE S.chats[i]]
         IN [S EXCEPT !.chats = chs, !.st = saveChats(S.st, chs, S.cur)]
    ELSE S

\* switchChat(chatId): the pointer is set and saved before the title of
\* the named conversation is read
switchChat(S, chatId) ==
    [S EXCEPT !.cur = chatId, !.st = saveChats(S.st, S.chats, chatId)]

\* A comparator that would put the oldest conversation first
compareCreatedAtAscending(a, b) == a.createdAt - b.createdAt

\* (a, b) => new Date(b.createdAt) - new Date(a.createdAt)
compareCreatedAt(a, b) == b.createdAt - a.createdAt

\* x put into the sorted array arr: before the first element that the
\* comparator places after x, so that equal elements keep their order
insertSorted(arr, x) ==
    LET after == {k \in DOMAIN arr : compareCreatedAt(arr[k], x) > 0}
        at == IF after = {} THEN Len(arr) + 1
              ELSE CHOOSE k \in after : \A l \in after : k <= l
    IN SubSeq(arr, 1, at - 1) \o <<x>> \o SubSeq(arr, at, Len(arr))

RECURSIVE sort(_)
\* Array.prototype.sort with compareCreatedAt: a stable sort
sort(arr) ==
    IF arr = <<>> THEN <<>>
    ELSE insertSorted(sort(SubSeq(arr, 1, Len(arr) - 1)), arr[Len(arr)])

HistoryTitleLength == 20

\* the icon of a conversation in the list
typeIcon(chat) ==
    IF \E j \in DOMAIN chat.messages : chat.messages[j].type = "image"
    THEN "fa-image"
    ELSE IF \E j \in DOMAIN chat.messages : chat.messages[j].type = "edit"
    THEN "fa-edit"
    ELSE "fa-comment"

\* updateChatHistory(), when every value of the map is a conversation:
\* the chat-item elements chatHistory holds after the call, in order.
\* chatHistory is emptied first; chatId is the argument of the element's
\* click listener.
updateChatHistory(chs, cur) ==
    LET chatsArray == sort(chs)
    IN [k \in DOMAIN chatsArray |->
           [chatId |-> chatsArray[k].id,
            active |-> chatsArray[k].id = cur,
            typeIcon |-> typeIcon(chatsArray[k]),
            title |-> truncateText(chatsArray[k].title, HistoryTitleLength)]]

-----------------------------------------------------------------------------
(* The server (src/server.js).  X is one exchange: res, the responses sent *)
(* for the incoming request; upstream, the requests issued to the          *)
(* completion service while handling it; apiKey, req.apiKey; and ran, the  *)
(* route handler that was entered.                                         *)

MinKeyLength == 20

NewExchange ==
    [res |-> <<>>, upstream |-> <<>>, apiKey |-> Undefined, ran |-> "none"]

\* res.status(status).json({success, error, ...}); payload names the result
\* field the body carries ("none", "content", "imageUrl", "fileInfo")
resJson(X, status, success, error, payload) ==
    [X EXCEPT !.res = Append(@, [status |-> status, success |-> success,
                                 error |-> error, payload |-> payload])]

\* await fetch('https://openrouter.ai/api/v1/...')
upstreamFetch(X, url) == [X EXCEPT !.upstream = Append(@, url)]

\* What the completion service answers: the fetch rejects, or it resolves
\* with a status and a body that is "full" (carries the expected field),
\* "partial" (JSON without it) or "notjson"
UpstreamOutcomes ==
    {[kind |-> "reject", status |-> 0, body |-> "notjson"]}
    \cup {[kind |-> "http", status |-> st, body |-> b] :
            st \in {200, 401, 429, 500}, b \in {"full", "partial", "notjson"}}

UpstreamOk(up) == up.status \in 200..299

\* a middleware that answers a missing credential with 401
validateApiKeyUnauthorized(X, body) ==
    IF body.apiKey = Null \/ body.apiKey = ""
    THEN resJson(X, 401, FALSE, "API key is required", "none")
    ELSE IF Len(body.apiKey) < MinKeyLength
    THEN resJson(X, 400, FALSE, "Invalid API key format", "none")
    ELSE [X EXCEPT !.apiKey = body.apiKey]

\* a middleware that does not look at the length of the credential
validateApiKeyAnyLength(X, body) ==
    IF body.apiKey = Null \/ body.apiKey = ""
    THEN resJson(X, 400, FALSE, "API key is required", "none")
    ELSE [X EXCEPT !.apiKey = body.apiKey]

\* validateApiKey(req, res, next): req.apiKey is set and next() is called
\* iff no response is sent
validateApiKey(X, body) ==
    IF body.apiKey = Null \/ body.apiKey = ""
    THEN resJson(X, 400, FALSE, "API key is required", "none")
    ELSE IF Len(body.apiKey) < MinKeyLength
    THEN resJson(X, 400, FALSE, "Invalid API key format", "none")
    ELSE [X EXCEPT !.apiKey = body.apiKey]

\* An /api/chat that would pass on whatever a 2xx answer holds
apiChatAnyBody(body, up) ==
    LET V == validateApiKey(NewExchange, body)
        X == [V EXCEPT !.ran = "chat"]
    IN IF V.res # <<>> THEN V
       ELSE IF ~body.messagesIsArray
       THEN resJson(X, 400, FALSE, "Messages array is required", "none")
       ELSE LET X1 == upstreamFetch(X, "chat/completions")
            IN IF up.kind = "reject"
               THEN resJson(X1, 500, FALSE, "Service temporarily unavailable", "none")
               ELSE IF ~UpstreamOk(up)
               THEN IF up.status = 401
                    THEN resJson(X1, 401, FALSE, "Invalid API key", "none")
                    ELSE IF up.status = 429
                    THEN resJson(X1, 429, FALSE, "Rate limit exceeded", "none")
                    ELSE resJson(X1, up.status, FALSE, "AI service error", "none")
               ELSE resJson(X1, 200, TRUE, "", "content")

\* app.post('/api/chat', validateApiKey, ...)
apiChat(body, up) ==
    LET V == validateApiKey(NewExchange, body)
        X == [V EXCEPT !.ran = "chat"]
    IN IF V.res # <<>> THEN V
       ELSE IF ~body.messagesIsArray
       THEN resJson(X, 400, FALSE, "Messages array is required", "none")
       ELSE LET X1 == upstreamFetch(X, "chat/completions")
            IN IF up.kind = "reject"
               THEN resJson(X1, 500, FALSE, "Service temporarily unavailable", "none")
               ELSE IF ~UpstreamOk(up)
               THEN IF up.status = 401
                    THEN resJson(X1, 401, FALSE, "Invalid API key", "none")
                    ELSE IF up.status = 429
                    THEN resJson(X1, 429, FALSE, "Rate limit exceeded", "none")
                    ELSE resJson(X1, up.status, FALSE, "AI service error", "none")
               ELSE IF up.body = "full"
               THEN resJson(X1, 200, TRUE, "", "content")
               ELSE resJson(X1, 500, FALSE, "Service temporarily unavailable", "none")

\* app.post('/api/generate-image', validateApiKey, ...)
apiGenerateImage(body, up) ==
    LET V == validateApiKey(NewExchange, body)
        X == [V EXCEPT !.ran = "generate-image"]
    IN IF V.res # <<>> THEN V
       ELSE IF body.prompt = EmptyText
       THEN resJson(X, 400, FALSE, "Prompt is required", "none")
       ELSE LET X1 == upstreamFetch(X, "images/generations")
            IN IF up.kind = "reject"
               THEN resJson(X1, 500, FALSE, "Image generation failed", "none")
               ELSE IF ~UpstreamOk(up)
               THEN resJson(X1, up.status, FALSE, "Image generation failed", "none")
               ELSE IF up.body = "full"
               THEN resJson(X1, 200, TRUE, "", "imageUrl")
               ELSE resJson(X1, 500, FALSE, "Image generation failed", "none")

\* app.post('/api/edit-image', upload.single('image'), validateApiKey, ...)
apiEditImage(body) ==
    LET V == validateApiKey(NewExchange, body)
        X == [V EXCEPT !.ran = "edit-image"]
    IN IF V.res # <<>> THEN V
       ELSE IF ~body.hasFile
       THEN resJson(X, 400, FALSE, "Image file is required", "none")
       ELSE IF body.prompt = EmptyText
       THEN resJson(X, 400, FALSE, "Prompt is required", "none")
       ELSE resJson(X, 200, TRUE, "", "fileInfo")

\* app.post('/api/validate-key', validateApiKey, ...): the body of the
\* upstream answer is not read
apiValidateKey(body, up) ==
    LET V == validateApiKey(NewExchange, body)
        X == [V EXCEPT !.ran = "validate-key"]
    IN IF V.res # <<>> THEN V
       ELSE LET X1 == upstreamFetch(X, "auth/key")
            IN IF up.kind = "reject"
               THEN resJson(X1, 500, FALSE, "Validation service unavailable", "none")
               ELSE IF UpstreamOk(up)
               THEN resJson(X1, 200, TRUE, "", "message")
               ELSE resJson(X1, 401, FALSE, "Invalid API key", "none")

\* the body of the request req as the client builds it
RequestBody(req) ==
    [apiKey |-> req.apiKey, messagesIsArray |-> TRUE, prompt |-> req.arg,
     hasFile |-> TRUE]

\* the exchange the server makes of the client's request req
serve(req, up) ==
    CASE req.op = "chat" -> apiChat(RequestBody(req), up)
      [] req.op = "image" -> apiGenerateImage(RequestBody(req), up)
      [] req.op = "edit" -> apiEditImage(RequestBody(req))
      [] req.op = "validate" ->
            apiValidateKey([RequestBody(req) EXCEPT !.apiKey = req.arg], up)

-----------------------------------------------------------------------------
(* The gated remote operations.  H is the instance a handler works on: the *)
(* store fields plus gen (isGenerating), key (userApiKey), img             *)
(* (uploadedImage is set), sent (the requests issued by this handler),     *)
(* modal (the handler called openApiKeyModal()), display (the texts the    *)
(* handler wrote into the streaming element, in order) and out (how the    *)
(* handler ended).                                                         *)

\* showTypingIndicator() / removeTypingIndicator()
showTypingIndicator(H) == [H EXCEPT !.gen = TRUE]
removeTypingIndicator(H) == [H EXCEPT !.gen = FALSE]

\* openApiKeyModal(): the API-key prompt is displayed
openApiKeyModal(H) == [H EXCEPT !.modal = TRUE]

\* A fetch that would issue the request twice
fetchTwice(H, op, arg, body) ==
    [H EXCEPT !.sent = @ \o <<[op |-> op, arg |-> arg, apiKey |-> H.key,
                               body |-> body, chat |-> H.cur],
                              [op |-> op, arg |-> arg, apiKey |-> H.key,
                               body |-> body, chat |-> H.cur]>>]

\* fetch(url, {body}) is called: one more request is outstanding.  arg is
\* the text the handler was called with and apiKey the credential the body
\* carries; chat is not part of the request: it records the conversation
\* that was active when the handler stored its user message.
fetch(H, op, arg, body) ==
    [H EXCEPT !.sent = Append(@, [op |-> op, arg |-> arg, apiKey |-> H.key,
                                  body |-> body, chat |-> H.cur])]

\* A gate that would never close
GatedNever(H) == FALSE

\* 'if (this.isGenerating) return;'
Gated(H) == H.gen
\* A credential check that would let every call through
NoApiKeyNever(H) == FALSE

\* 'if (!this.userApiKey) { ...; return; }'
NoApiKey(H) == H.key = Null

\* response.ok
ResponseOk(r) == r.status \in 200..299
\* data.error || fallback
OrElse(error, fallback) == IF error # <<>> THEN error ELSE fallback

RECURSIVE revealLoop(_, _, _, _)
\* The for loop of typeMessage from unit i on, displayedContent being on
\* display: the texts it writes into the streaming element.  stopAt is the
\* first unit before which isGenerating is found false (Len(content) + 1:
\* it is never found false).
revealLoop(content, i, displayedContent, stopAt) ==
    IF i > Len(content) \/ i = stopAt THEN <<>>
    ELSE LET shown == Append(displayedContent, content[i])
         IN <<shown>> \o revealLoop(content, i + 1, shown, stopAt)

\* A typeMessage that would commit what is on display when the loop ends
typeMessageStoresShown(H, content, role, type, stopAt) ==
    LET shown == revealLoop(content, 1, <<>>, stopAt)
    IN addMessage(H, role, IF shown = <<>> THEN <<>> ELSE shown[Len(shown)],
                  type)

\* typeMessage(content, role, type) when the reveal loop stops at stopAt:
\* after the loop the full content is displayed and committed
typeMessageAt(H, content, role, type, stopAt) ==
    IF type = "image"
    THEN IF NoCurrentChat(H) THEN [H EXCEPT !.out = "threw"]
         ELSE addImageMessage(H, content, GeneratedImageCaption, role)
    ELSE LET H1 == [H EXCEPT !.display =
                       @ \o revealLoop(content, 1, <<>>, stopAt) \o <<content>>]
         IN IF NoCurrentChat(H1) THEN [H1 EXCEPT !.out = "threw"]
            ELSE addMessage(H1, role, content, type)

\* typeMessage(content, role, type) as a handler calls it: no other code
\* runs before the first test of isGenerating, so with the flag down the
\* loop breaks at its first unit, before any delay
typeMessage(H, content, role, type) ==
    typeMessageAt(H, content, role, type,
                  IF H.gen THEN Len(content) + 1 ELSE 1)

\* msg => msg.role !== 'system'
NotSystem(msg) == msg.role # "system"

\* A request body that would carry the new user message a second time
requestBodyPushesAgain(H, userMessage) ==
    LET stored == SelectSeq(MapGet(H.chats, H.cur).messages, NotSystem)
    IN [messages |-> Append([i \in DOMAIN stored |->
                                [role |-> stored[i].role,
                                 content |-> stored[i].content]],
                            [role |-> "user", content |-> userMessage]),
        model |-> H.model,
        apiKey |-> H.key,
        format |-> IF H.json THEN "json" ELSE Undefined]

\* requestBody of generateAIResponse(userMessage): the stored messages of
\* the active conversation, which sendMessage() has already extended by
\* the user message; format is set only in JSON mode
requestBody(H, userMessage) ==
    LET stored == SelectSeq(MapGet(H.chats, H.cur).messages, NotSystem)
    IN [messages |-> [i \in DOMAIN stored |->
                         [role |-> stored[i].role,
                          content |-> stored[i].content]],
        model |-> H.model,
        apiKey |-> H.key,
        format |-> IF H.json THEN "json" ELSE Undefined]

\* generateAIResponse(userMessage), up to the await of fetch('/api/chat')
generateAIResponse(H, userMessage) ==
    fetch(H, "chat", userMessage, requestBody(H, userMessage))

\* sendMessage(), up to the await of the remote call
sendMessage(H, message) ==
    IF Gated(H) THEN [H EXCEPT !.out = "gated"]
    ELSE IF NoApiKey(H) THEN [openApiKeyModal(H) EXCEPT !.out = "nokey"]
    ELSE IF message = EmptyText THEN [H EXCEPT !.out = "empty"]
    ELSE IF NoCurrentChat(H) THEN [H EXCEPT !.out = "threw"]
    ELSE [generateAIResponse(
              showTypingIndicator(addMessage(H, "user", message, "text")),
              message)
            EXCEPT !.out = "sent"]

\* the message of the Error that generateAIResponse() throws
chatError(r) ==
    IF r.kind = "reject" THEN NetworkErrorMsg
    ELSE IF r.kind = "badbody" THEN ParseErrorMsg
    ELSE IF ~ResponseOk(r)
    THEN IF r.status = 401 THEN ApiKeyInvalidMsg
         ELSE OrElse(r.error, RequestFailedColon \o StatusText)
    ELSE OrElse(r.error, RequestFailedMsg)

\* generateAIResponse() after the await: does it return data.content
chatSucceeds(r) == r.kind = "http" /\ ResponseOk(r) /\ r.success

\* A catch block that would leave the typing indicator in place
catchErrorKeepsFlag(H, text) ==
    IF NoCurrentChat(H) THEN [H EXCEPT !.out = "threw"]
    ELSE [addMessage(H, "assistant", text, "text") EXCEPT !.out = "error"]

\* the catch block of sendMessage / generateImage / editImage
catchError(H, text) ==
    LET H1 == removeTypingIndicator(H)
    IN IF NoCurrentChat(H1) THEN [H1 EXCEPT !.out = "threw"]
       ELSE [addMessage(H1, "assistant", text, "text") EXCEPT !.out = "error"]

\* sendMessage() from the moment the remote call settles with r
sendMessageSettled(H, message, r) ==
    IF chatSucceeds(r)
    THEN LET H1 == typeMessage(removeTypingIndicator(H), ReplyText,
                               "assistant", "text")
         IN IF H1.out = "threw"
            THEN catchError(H1, ErrorPrefix)
            ELSE [updateChatTitleFromFirstMessage(H1, message)
                    EXCEPT !.out = "reply"]
    ELSE LET H0 == IF r.kind = "http" /\ ~ResponseOk(r) /\ r.status = 401
                   THEN openApiKeyModal(
                            [H EXCEPT !.key = Null, !.st.user_api_key = Null])
                   ELSE H
         IN catchError(H0, ErrorPrefix \o chatError(r))

\* generateImage(), up to the await of the remote call
generateImage(H, prompt) ==
    IF Gated(H) THEN [H EXCEPT !.out = "gated"]
    ELSE IF NoApiKey(H) THEN [openApiKeyModal(H) EXCEPT !.out = "nokey"]
    ELSE IF prompt = EmptyText THEN [H EXCEPT !.out = "empty"]
    ELSE IF NoCurrentChat(H) THEN [H EXCEPT !.out = "threw"]
    ELSE [fetch(showTypingIndicator(
                    addMessage(H, "user", GenerateImagePrefix \o prompt,
                               "image_generation")),
                "image", prompt,
                [prompt |-> prompt, apiKey |-> H.key])
            EXCEPT !.out = "sent"]

\* the message of the Error thrown inside generateImage()'s try block
imageError(r) ==
    IF r.kind = "reject" THEN NetworkErrorMsg
    ELSE IF r.kind = "badbody" THEN ParseErrorMsg
    ELSE IF ~ResponseOk(r) THEN OrElse(r.error, ImageGenFailedColon \o StatusText)
    ELSE OrElse(r.error, ImageGenFailedMsg)

\* generateImage() from the moment the remote call settles with r
generateImageSettled(H, prompt, r) ==
    IF chatSucceeds(r)
    THEN LET H1 == removeTypingIndicator(H)
         IN IF NoCurrentChat(H1)
            THEN catchError(H1, ImageGenFailedColon)
            ELSE [updateChatTitleFromFirstMessage(
                      addImageMessage(H1, ImageUrl, prompt, "assistant"),
                      ImageTitlePrefix \o prompt)
                    EXCEPT !.out = "reply"]
    ELSE catchError(H, ImageGenFailedColon \o imageError(r))

\* editImage(), up to the await of the remote call
editImage(H, prompt) ==
    IF Gated(H) \/ ~H.img THEN [H EXCEPT !.out = "gated"]
    ELSE IF NoApiKey(H) THEN [openApiKeyModal(H) EXCEPT !.out = "nokey"]
    ELSE IF prompt = EmptyText THEN [H EXCEPT !.out = "empty"]
    ELSE IF NoCurrentChat(H) THEN [H EXCEPT !.out = "threw"]
    ELSE [fetch(showTypingIndicator(
                    addMessage(H, "user", EditImagePrefix \o prompt,
                               "image_edit")),
                "edit", prompt,
                [image |-> "file", prompt |-> prompt, apiKey |-> H.key])
            EXCEPT !.out = "sent"]

\* the message of the Error thrown inside editImage()'s try block
editError(r) ==
    IF r.kind = "reject" THEN NetworkErrorMsg
    ELSE IF r.kind = "badbody" THEN ParseErrorMsg
    ELSE IF ~ResponseOk(r) THEN OrElse(r.error, ImageEditFailedColon \o StatusText)
    ELSE OrElse(r.error, ImageEditFailedMsg)

\* data.imageUrl, where data is the body with success: true that
\* /api/edit-image answers a request for prompt with
editedImageUrl(prompt) ==
    LET X == apiEditImage([apiKey |-> CHOOSE k \in ApiKeys : TRUE,
                           messagesIsArray |-> FALSE, prompt |-> prompt,
                           hasFile |-> TRUE])
    IN IF X.res[1].payload = "imageUrl" THEN ImageUrl ELSE UndefinedText

\* editImage() from the moment the remote call settles with r
editImageSettled(H, prompt, r) ==
    IF chatSucceeds(r)
    THEN LET H1 == removeTypingIndicator(H)
         IN IF NoCurrentChat(H1)
            THEN catchError(H1, ImageEditFailedColon)
            ELSE [updateChatTitleFromFirstMessage(
                      addImageMessage(H1, editedImageUrl(prompt),
                                      EditedPrefix \o prompt,
                                      "assistant"),
                      EditedPrefix \o prompt)
                    EXCEPT !.out = "reply"]
    ELSE catchError(H, ImageEditFailedColon \o editError(r))

\* A saveUserSettings() that would write nothing
saveUserSettingsForgets(H) == H

\* saveUserSettings()
saveUserSettings(H) ==
    IF H.key # Null /\ H.key # ""
    THEN [H EXCEPT !.st.user_api_key = H.key]
    ELSE H

\* saveApiKey(), up to the await of the remote call; candidate is
\* apiKeyInput.value.trim().  The handler tests neither isGenerating nor
\* the credential in memory.
saveApiKey(H, candidate) ==
    IF candidate = "" THEN [H EXCEPT !.out = "empty"]
    ELSE [fetch(H, "validate", candidate, [apiKey |-> candidate])
            EXCEPT !.out = "sent"]

\* A continuation that would store the candidate whatever the answer
saveApiKeySettledAnyAnswer(H, candidate, r) ==
    [saveUserSettings([H EXCEPT !.key = candidate]) EXCEPT !.out = "saved"]

\* saveApiKey() from the moment the remote call settles with r: only
\* data.success is read, response.ok is not
saveApiKeySettled(H, candidate, r) ==
    IF r.kind = "http" /\ r.success
    THEN [saveUserSettings([H EXCEPT !.key = candidate])
            EXCEPT !.out = "saved"]
    ELSE [H EXCEPT !.out = "failed"]

-----------------------------------------------------------------------------
(* The renderer: formatMessage(content).  Text and markup are sequences of *)
(* characters, so that a rule sees the markup an earlier rule has emitted. *)

\* the backtick character, which a string of this language cannot hold
Backtick == "BACKTICK"

\* The markup formatMessage and escapeHtml emit.  blockHead, blockMid and
\* blockTail are the template of a code block: up to the language tag,
\* from there to the code, and after the code; text is the language tag of
\* a block that names none.
Markup ==
    [strongOpen |->
        <<"<", "s", "t", "r", "o", "n", "g", " ", "c", "l", "a", "s", "s",
          "=", "\"", "b", "o", "l", "d", "-", "t", "e", "x", "t", "\"", ">">>,
     strongClose |->
        <<"<", "/", "s", "t", "r", "o", "n", "g", ">">>,
     emOpen |->
        <<"<", "e", "m", " ", "c", "l", "a", "s", "s", "=", "\"", "i", "t",
          "a", "l", "i", "c", "-", "t", "e", "x", "t", "\"", ">">>,
     emClose |->
        <<"<", "/", "e", "m", ">">>,
     delOpen |->
        <<"<", "d", "e", "l", " ", "c", "l", "a", "s", "s", "=", "\"", "s",
          "t", "r", "i", "k", "e", "-", "t", "e", "x", "t", "\"", ">">>,
     delClose |->
        <<"<", "/", "d", "e", "l", ">">>,
     codeOpen |->
        <<"<", "c", "o", "d", "e", " ", "c", "l", "a", "s", "s", "=", "\"",
          "i", "n", "l", "i", "n", "e", "-", "c", "o", "d", "e", "\"", ">">>,
     codeClose |->
        <<"<", "/", "c", "o", "d", "e", ">">>,
     blockHead |->
        <<"\n", " ", " ", " ", " ", " ", " ", " ", " ", " ", " ", " ", " ",
          " ", " ", " ", " ", "<", "d", "i", "v", " ", "c", "l", "a", "s",
          "s", "=", "\"", "c", "o", "d", "e", "-", "b", "l", "o", "c", "k",
          "\"", ">", "\n", " ", " ", " ", " ", " ", " ", " ", " ", " ", " ",
          " ", " ", " ", " ", " ", " ", " ", " ", " ", " ", "<", "d", "i",
          "v", " ", "c", "l", "a", "s", "s", "=", "\"", "c", "o", "d", "e",
          "-", "h", "e", "a", "d", "e", "r", "\"", ">", "\n", " ", " ", " ",
          " ", " ", " ", " ", " ", " ", " ", " ", " ", " ", " ", " ", " ",
          " ", " ", " ", " ", " ", " ", " ", " ", "<", "s", "p", "a", "n",
          " ", "c", "l", "a", "s", "s", "=", "\"", "l", "a", "n", "g", "u",
          "a", "g", "e", "-", "t", "a", "g", "\"", ">">>,
     blockMid |->
        <<"<", "/", "s", "p", "a", "n", ">", "\n", " ", " ", " ", " ", " ",
          " ", " ", " ", " ", " ", " ", " ", " ", " ", " ", " ", " ", " ",
          " ", " ", " ", " ", " ", " ", "<", "b", "u", "t", "t", "o", "n",
          " ", "c", "l", "a", "s", "s", "=", "\"", "c", "o", "p", "y", "-",
          "b", "t", "n", "\"", " ", "o", "n", "c", "l", "i", "c", "k", "=",
          "\"", "a", "p", "p", ".", "c", "o", "p", "y", "C", "o", "d", "e",
          "(", "t", "h", "i", "s", ")", "\"", ">", "C", "o", "p", "y", "<",
          "/", "b", "u", "t", "t", "o", "n", ">", "\n", " ", " ", " ", " ",
          " ", " ", " ", " ", " ", " ", " ", " ", " ", " ", " ", " ", " ",
          " ", " ", " ", "<", "/", "d", "i", "v", ">", "\n", " ", " ", " ",
          " ", " ", " ", " ", " ", " ", " ", " ", " ", " ", " ", " ", " ",
          " ", " ", " ", " ", "<", "p", "r", "e", ">", "<", "c", "o", "d",
          "e", ">">>,
     blockTail |->
        <<"<", "/", "c", "o", "d", "e", ">", "<", "/", "p", "r", "e", ">",
          "\n", " ", " ", " ", " ", " ", " ", " ", " ", " ", " ", " ", " ",
          " ", " ", " ", " ", "<", "/", "d", "i", "v", ">", "\n", " ", " ",
          " ", " ", " ", " ", " ", " ", " ", " ", " ", " ">>,
     text |->
        <<"t", "e", "x", "t">>,
     quoteOpen |->
        <<"<", "b", "l", "o", "c", "k", "q", "u", "o", "t", "e", " ", "c",
          "l", "a", "s", "s", "=", "\"", "q", "u", "o", "t", "e", "-", "b",
          "l", "o", "c", "k", "\"", ">">>,
     quoteClose |->
        <<"<", "/", "b", "l", "o", "c", "k", "q", "u", "o", "t", "e", ">">>,
     liOpen |->
        <<"<", "l", "i", " ", "c", "l", "a", "s", "s", "=", "\"", "l", "i",
          "s", "t", "-", "i", "t", "e", "m", "\"", ">">>,
     liClose |->
        <<"<", "/", "l", "i", ">">>,
     ulOpen |->
        <<"<", "u", "l", " ", "c", "l", "a", "s", "s", "=", "\"", "s", "t",
          "y", "l", "e", "d", "-", "l", "i", "s", "t", "\"", ">">>,
     ulClose |->
        <<"<", "/", "u", "l", ">">>,
     br |->
        <<"<", "b", "r", ">">>,
     amp |->
        <<"&", "a", "m", "p", ";">>,
     lt |->
        <<"&", "l", "t", ";">>,
     gt |->
        <<"&", "g", "t", ";">>]

\* /```/
Fence == <<Backtick, Backtick, Backtick>>

\* the least index k >= from with text[k] in cs; 0 if there is none
IndexOf(text, cs, from) ==
    LET at == {k \in from..Len(text) : text[k] \in cs}
    IN IF at = {} THEN 0 ELSE CHOOSE k \in at : \A l \in at : k <= l

\* pat occurs in text at index k
OccursAt(text, pat, k) ==
    k >= 1 /\ k + Len(pat) - 1 <= Len(text)
           /\ SubSeq(text, k, k + Len(pat) - 1) = pat

\* the least index k >= from at which pat occurs in text; 0 if none
IndexOfSeq(text, pat, from) ==
    LET at == {k \in from..Len(text) : OccursAt(text, pat, k)}
    IN IF at = {} THEN 0 ELSE CHOOSE k \in at : \A l \in at : k <= l

RECURSIVE escapeFrom(_, _)
\* text from index p on, with the characters &, < and > replaced
escapeFrom(text, p) ==
    LET s == IndexOf(text, {"&", "<", ">"}, p)
    IN IF s = 0 THEN SubSeq(text, p, Len(text))
       ELSE SubSeq(text, p, s - 1)
               \o (CASE text[s] = "&" -> Markup.amp
                      [] text[s] = "<" -> Markup.lt
                      [] text[s] = ">" -> Markup.gt)
               \o escapeFrom(text, s + 1)

\* escapeHtml(text): div.textContent = text; return div.innerHTML
escapeHtml(text) == escapeFrom(text, 1)

\* String.prototype.trim()
trim(text) ==
    LET WhiteSpace == {" ", "\n", "\t", "\r"}
        solid == {k \in DOMAIN text : text[k] \notin WhiteSpace}
    IN IF solid = {} THEN <<>>
       ELSE SubSeq(text, CHOOSE k \in solid : \A l \in solid : k <= l,
                         CHOOSE k \in solid : \A l \in solid : k >= l)

RECURSIVE replaceBold(_, _)
\* .replace(/\*(\*?[^*]+\*?)\*/g, Markup.strongOpen + '$1' + Markup.strongClose) from
\* index p on.  A match at p: '*', one more '*' if there is one, a
\* run of other characters up to the next '*' at r, and the match ends at
\* r + 1 if that is a '*' too, else at r.
replaceBold(text, p) ==
    LET s == IndexOf(text, {"*"}, p)
        from == IF s + 1 <= Len(text) /\ text[s + 1] = "*"
                THEN s + 2 ELSE s + 1
        r == IF from <= Len(text) /\ text[from] # "*"
             THEN IndexOf(text, {"*"}, from + 1) ELSE 0
        end == IF r + 1 <= Len(text) /\ text[r + 1] = "*"
               THEN r + 1 ELSE r
    IN IF s = 0 THEN SubSeq(text, p, Len(text))
       ELSE IF r # 0
       THEN SubSeq(text, p, s - 1) \o Markup.strongOpen
               \o SubSeq(text, s + 1, end - 1) \o Markup.strongClose
               \o replaceBold(text, end + 1)
       ELSE SubSeq(text, p, s) \o replaceBold(text, s + 1)

RECURSIVE replaceDelimited(_, _, _, _, _)
\* .replace(/d([^d]+)d/g, open + '$1' + close) from index p on, for the
\* delimiter d: '_', '~' or '`'
replaceDelimited(text, p, d, open, close) ==
    LET s == IndexOf(text, {d}, p)
        q == IF s + 1 <= Len(text) /\ text[s + 1] # d
             THEN IndexOf(text, {d}, s + 2) ELSE 0
    IN IF s = 0 THEN SubSeq(text, p, Len(text))
       ELSE IF q # 0
       THEN SubSeq(text, p, s - 1) \o open \o SubSeq(text, s + 1, q - 1)
               \o close \o replaceDelimited(text, q + 1, d, open, close)
       ELSE SubSeq(text, p, s) \o replaceDelimited(text, s + 1, d, open, close)

\* the index after the run of \w characters that starts at index k
WordEnd(text, k) ==
    LET WordChars ==
            {"a", "b", "c", "d", "e", "f", "g", "h", "i", "j", "k", "l", "m",
             "n", "o", "p", "q", "r", "s", "t", "u", "v", "w", "x", "y", "z",
             "A", "B", "C", "D", "E", "F", "G", "H", "I", "J", "K", "L", "M",
             "N", "O", "P", "Q", "R", "S", "T", "U", "V", "W", "X", "Y", "Z",
             "0", "1", "2", "3", "4", "5", "6", "7", "8", "9", "_"}
        stop == {n \in k..Len(text) : text[n] \notin WordChars}
    IN IF stop = {} THEN Len(text) + 1
       ELSE CHOOSE n \in stop : \A l \in stop : n <= l

\* the callback of the code-block rule
codeBlock(language, code) ==
    Markup.blockHead \o (IF language = <<>> THEN Markup.text ELSE language)
        \o Markup.blockMid \o escapeHtml(trim(code)) \o Markup.blockTail

\* /```(\w+)?\n([\s\S]*?)```/ matches at index p: the index of the closing
\* fence; 0 if it does not match
FenceClose(text, p) ==
    IF OccursAt(text, Fence, p)
       /\ WordEnd(text, p + 3) <= Len(text)
       /\ text[WordEnd(text, p + 3)] = "\n"
    THEN IndexOfSeq(text, Fence, WordEnd(text, p + 3) + 1)
    ELSE 0

RECURSIVE replaceCodeBlocks(_, _)
\* .replace(/```(\w+)?\n([\s\S]*?)```/g, (match, language, code) => ...)
\* from index p on
replaceCodeBlocks(text, p) ==
    LET s == IndexOfSeq(text, Fence, p)
        c == FenceClose(text, s)
        n == WordEnd(text, s + 3)
    IN IF s = 0 THEN SubSeq(text, p, Len(text))
       ELSE IF c # 0
       THEN SubSeq(text, p, s - 1)
               \o codeBlock(SubSeq(text, s + 3, n - 1),
                            SubSeq(text, n + 1, c - 1))
               \o replaceCodeBlocks(text, c + 3)
       ELSE SubSeq(text, p, s) \o replaceCodeBlocks(text, s + 1)

\* what a rule with ^, .* and $ under the flags g and m makes of one line
replaceInLine(rule, line) ==
    CASE rule = "quote" ->
            \* /^> (.*$)/gim
            IF OccursAt(line, <<">", " ">>, 1)
            THEN Markup.quoteOpen \o SubSeq(line, 3, Len(line)) \o Markup.quoteClose
            ELSE line
      [] rule = "item" ->
            \* /^- (.*$)/gim
            IF OccursAt(line, <<"-", " ">>, 1)
            THEN Markup.liOpen \o SubSeq(line, 3, Len(line)) \o Markup.liClose
            ELSE line
      [] rule = "list" ->
            \* /(Markup.liOpen.*Markup.liClose)/g: from the first opening
            \* tag of the line to its last closing tag
            LET p == IndexOfSeq(line, Markup.liOpen, 1)
                closes == {k \in p + Len(Markup.liOpen)..Len(line) :
                              OccursAt(line, Markup.liClose, k)}
                q == IF p = 0 \/ closes = {} THEN 0
                     ELSE CHOOSE k \in closes : \A l \in closes : k >= l
                end == q + Len(Markup.liClose) - 1
            IN IF q # 0
               THEN SubSeq(line, 1, p - 1) \o Markup.ulOpen \o SubSeq(line, p, end)
                       \o Markup.ulClose \o SubSeq(line, end + 1, Len(line))
               ELSE line

RECURSIVE replaceLines(_, _)
\* a rule that cannot match across a line break, applied to every line
replaceLines(rule, text) ==
    LET nl == IndexOf(text, {"\n"}, 1)
    IN IF nl = 0 THEN replaceInLine(rule, text)
       ELSE replaceInLine(rule, SubSeq(text, 1, nl - 1)) \o <<"\n">>
               \o replaceLines(rule, SubSeq(text, nl + 1, Len(text)))

RECURSIVE replaceLineBreaks(_, _)
\* .replace(/\n/g, '<br>') from index p on
replaceLineBreaks(text, p) ==
    LET s == IndexOf(text, {"\n"}, p)
    IN IF s = 0 THEN SubSeq(text, p, Len(text))
       ELSE SubSeq(text, p, s - 1) \o Markup.br \o replaceLineBreaks(text, s + 1)

\* formatMessage(content)
formatMessage(content) ==
    IF content = <<>> THEN <<>>
    ELSE replaceLineBreaks(
            replaceLines("list",
              replaceLines("item",
                replaceLines("quote",
                  replaceCodeBlocks(
                    replaceDelimited(
                      replaceDelimited(
                        replaceDelimited(
                          replaceBold(content, 1),
                          1, "_", Markup.emOpen, Markup.emClose),
                        1, "~", Markup.delOpen, Markup.delClose),
                      1, Backtick, Markup.codeOpen, Markup.codeClose), 1)))), 1)

\* message texts the renderer is explored with
FormatInputs ==
    {<<>>,
     <<"H", "i">>,
     <<"a", "\n", "b">>,
     <<"*", "a", "*">>,
     <<"*", "*", "a", "*", "*">>,
     <<"_", "a", "_">>,
     <<"~", "a", "~">>,
     <<Backtick, "<", "b", ">", Backtick>>,
     <<Backtick, Backtick, Backtick, "\n", "x", "\n", Backtick, Backtick,
       Backtick>>,
     <<Backtick, Backtick, Backtick, "j", "s", "\n", "a", "_", "b", "_", "c",
       "\n", Backtick, Backtick, Backtick>>,
     <<Backtick, Backtick, Backtick, "\n", "<", "i", ">", "\n", Backtick,
       Backtick, Backtick>>,
     <<">", " ", "q">>,
     <<"-", " ", "a">>,
     <<"-", " ", "a", "\n", "-", " ", "b">>,
     <<"a", "<", "b">>,
     <<"&", "l", "t", ";">>}

-----------------------------------------------------------------------------
(* The state *)

TheApp ==
    [chats |-> chats, cur |-> currentChatId, st |-> storage,
     gen |-> isGenerating, key |-> userApiKey, img |-> uploadedImage,
     sent |-> inflight, modal |-> FALSE, display |-> <<>>, out |-> "none",
     json |-> FALSE, model |-> "deepseek/deepseek-chat"]

\* A handler turned the instance into H
SetApp(H) ==
    /\ chats' = H.chats
    /\ currentChatId' = H.cur
    /\ storage' = H.st
    /\ isGenerating' = H.gen
    /\ userApiKey' = H.key
    /\ uploadedImage' = H.img
    /\ inflight' = H.sent

\* A request is explored only while fewer than MaxDone requests have
\* settled or have been abandoned by a reload
HasRoom == nDone < MaxDone

\* the sequence s without its i-th element
RemoveAt(s, i) == SubSeq(s, 1, i - 1) \o SubSeq(s, i + 1, Len(s))

\* What saveChats() of an earlier visit left behind: one conversation
\* whose first request was still outstanding when the page was closed
ReturningBlob ==
    JSONstringify(<<[id |-> 1, title |-> NEW_CHAT, createdAt |-> 1,
                     messages |-> <<[role |-> "user", content |-> TextLong,
                                     type |-> "text"]>>]>>)

\* localStorage when the page is opened: a first visit, a blob that is not
\* JSON, an empty set, or the store of an earlier visit
InitialStorage ==
    {[ai_chats |-> b, current_chat_id |-> c, user_api_key |-> k] :
        b \in {Absent, MalformedBlob, NotArrayBlob, JSONstringify(<<>>),
               ForeignArrayBlob},
        c \in {NoId, 1},
        k \in {Null} \cup ApiKeys}
    \cup
    {[ai_chats |-> ReturningBlob, current_chat_id |-> 1, user_api_key |-> k] :
        k \in ApiKeys}

\* The store of an earlier visit was written at an earlier clock value
Init ==
    /\ app = "boot"
    /\ chats = <<>>
    /\ currentChatId = NoId
    /\ isGenerating = FALSE
    /\ userApiKey = Null
    /\ uploadedImage = FALSE
    /\ storage \in InitialStorage
    /\ now = IF storage.ai_chats = ReturningBlob THEN 2 ELSE 1
    /\ inflight = <<>>
    /\ nDone = 0
    /\ fresh = FALSE
    /\ formatArg = <<>>
    /\ formatted = <<>>
    /\ step = "idle"
    /\ request = <<>>
    /\ exchange = NewExchange

\* updateChatHistory() reads chat.messages.some(...) of every value of the
\* map: for a value without messages this raises a TypeError
updateChatHistoryThrows(chs) == \E i \in DOMAIN chs : chs[i] = ForeignEntry

\* constructor + initializeApp(): loadUserSettings(), loadChats(),
\* attachEventListeners(), updateChatHistory()
initializeApp(H, t) ==
    LET H1 == [H EXCEPT !.key = H.st.user_api_key]
        H2 == loadChats(H1, t)
    IN IF updateChatHistoryThrows(H2.chats) THEN [H2 EXCEPT !.out = "threw"]
       ELSE [H2 EXCEPT !.out = IF H2.st = H1.st THEN "restored"
                                                ELSE "bootstrapped"]

\* the instance the constructor builds before initializeApp() runs
NewInstance(st) ==
    [chats |-> <<>>, cur |-> NoId, st |-> st, gen |-> FALSE, key |-> Null,
     img |-> FALSE, sent |-> <<>>, modal |-> FALSE, display |-> <<>>,
     out |-> "none", json |-> FALSE, model |-> "deepseek/deepseek-chat"]

\* DOMContentLoaded on the first visit: window.app = new AdvancedAIChat().
\* t is the value of Date.now() if loadChats() has to create a conversation.
\* What the page does after its constructor threw is not explored.
InitializeApp(t) ==
    /\ app = "boot"
    /\ LET H == initializeApp(NewInstance(storage), t)
       IN /\ SetApp(H)
          /\ app' = IF H.out = "threw" THEN "crashed" ELSE "running"
          /\ now' = IF H.out = "bootstrapped" THEN t ELSE now
    /\ t = now'
    /\ fresh' = TRUE
    /\ UNCHANGED <<nDone, renderVars, request, exchange>>

\* The page is reloaded: memory is lost and pending continuations never
\* run, localStorage stays, and a new instance is constructed from it
Reload(t) ==
    /\ app = "running"
    /\ LET H == initializeApp(NewInstance(storage), t)
       IN /\ SetApp(H)
          /\ now' = IF H.out = "bootstrapped" THEN t ELSE now
    /\ t = now'
    /\ nDone' = nDone + Len(inflight)
    /\ fresh' = TRUE
    /\ UNCHANGED <<app, renderVars, request, exchange>>

\* click on newChatBtn when Date.now() is t
CreateNewChat(t) ==
    /\ app = "running"
    /\ SetApp([createNewChat(TheApp, t) EXCEPT !.out = "done"])
    /\ now' = t
    /\ fresh' = FALSE
    /\ UNCHANGED <<app, nDone, renderVars, request, exchange>>

\* switchChat(chatId): reading the title of an absent conversation raises
SwitchChat(chatId) ==
    /\ app = "running"
    /\ SetApp([switchChat(TheApp, chatId) EXCEPT
                  !.out = IF MapHas(chats, chatId) THEN "done" ELSE "threw"])
    /\ fresh' = FALSE
    /\ UNCHANGED <<app, now, nDone, renderVars, request, exchange>>

\* click on clearChatBtn
ClearCurrentChat ==
    /\ app = "running"
    /\ SetApp([clearCurrentChat(TheApp) EXCEPT !.out = "done"])
    /\ fresh' = FALSE
    /\ UNCHANGED <<app, now, nDone, renderVars, request, exchange>>

\* handleImageUpload(event) with a file chosen
HandleImageUpload ==
    /\ app = "running"
    /\ SetApp([TheApp EXCEPT !.img = TRUE, !.out = "done"])
    /\ fresh' = FALSE
    /\ UNCHANGED <<app, now, nDone, renderVars, request, exchange>>

\* The instance as a handler finds it when the model select shows model
\* and toggleJsonMode() has left this.jsonMode at json.  Nothing but
\* generateAIResponse() reads the two, and only to build the body.
WithSettings(H, model, json) == [H EXCEPT !.model = model, !.json = json]

\* click on sendButton, or Enter in the message input, with the settings
\* of a page just opened: the first model, JSON mode off
SendMessage(message) ==
    /\ app = "running"
    /\ LET H == sendMessage(TheApp, message)
       IN /\ (H.out = "sent" => HasRoom)
          /\ SetApp(H)
    /\ fresh' = FALSE
    /\ UNCHANGED <<app, now, nDone, renderVars, request, exchange>>

\* click on generateImageBtn
GenerateImage(prompt) ==
    /\ app = "running"
    /\ LET H == generateImage(TheApp, prompt)
       IN /\ (H.out = "sent" => HasRoom)
          /\ SetApp(H)
    /\ fresh' = FALSE
    /\ UNCHANGED <<app, now, nDone, renderVars, request, exchange>>

\* click on editImageBtn
EditImage(prompt) ==
    /\ app = "running"
    /\ LET H == editImage(TheApp, prompt)
       IN /\ (H.out = "sent" => HasRoom)
          /\ SetApp(H)
    /\ fresh' = FALSE
    /\ UNCHANGED <<app, now, nDone, renderVars, request, exchange>>

\* The instance after the handler that awaits the i-th outstanding request
\* has resumed with r and run to its end
Resumed(i, r) ==
    LET req == inflight[i]
        H0 == [TheApp EXCEPT !.sent = RemoveAt(inflight, i)]
    IN CASE req.op = "chat" -> sendMessageSettled(H0, req.arg, r)
         [] req.op = "image" -> generateImageSettled(H0, req.arg, r)
         [] req.op = "edit" -> editImageSettled(H0, req.arg, r)
         [] req.op = "validate" -> saveApiKeySettled(H0, req.arg, r)

\* response / await response.json() of the page for the answer res of the
\* server: status, data.success and data.error
AsReceived(res) ==
    [kind |-> "http", status |-> res.status, success |-> res.success,
     error |-> IF res.error = "" THEN <<>> ELSE ServerError]

\* The i-th outstanding request settles with r and its handler resumes
Settle(i, r) ==
    /\ app = "running"
    /\ SetApp(Resumed(i, r))
    /\ nDone' = nDone + 1
    /\ fresh' = FALSE
    /\ UNCHANGED <<app, now, renderVars, request, exchange>>

Next ==
    \/ \E t \in now..MaxClock : InitializeApp(t)
    \/ \E t \in now..MaxClock : Reload(t)
    \/ \E t \in now..MaxClock : CreateNewChat(t)
    \/ \E chatId \in ChatIds : SwitchChat(chatId)
    \/ ClearCurrentChat
    \/ HandleImageUpload
    \/ \E message \in UserTexts : SendMessage(message)
    \/ \E prompt \in Prompts : GenerateImage(prompt)
    \/ \E prompt \in Prompts : EditImage(prompt)
    \/ \E i \in DOMAIN inflight, r \in SettleResponses : Settle(i, r)

Spec == Init /\ [][Next]_vars

-----------------------------------------------------------------------------
(* The page with its API-key dialog.  A validation request is not gated by *)
(* isGenerating: it can be outstanding next to a chat or image request.    *)
(* The operations that neither read nor assign userApiKey or               *)
(* 'user_api_key' (createNewChat, switchChat, clearCurrentChat,            *)
(* handleImageUpload) are left to Spec.                                    *)

\* what the user may have typed into the dialog, trimmed: nothing, or a
\* credential other than the stored one
CandidateKeys == {"", "sk-or-v1-fedcba9876543210"}

\* click on saveApiKeyBtn.  At most MaxDone + 1 requests are explored
\* outstanding at once.
SaveApiKey(candidate) ==
    /\ app = "running"
    /\ LET H == saveApiKey(TheApp, candidate)
       IN /\ (H.out = "sent" => (HasRoom /\ Len(inflight) <= MaxDone))
          /\ SetApp(H)
    /\ fresh' = FALSE
    /\ UNCHANGED <<app, now, nDone, renderVars, request, exchange>>

\* a first visit, with or without a credential stored by an earlier one
InitKey ==
    /\ Init
    /\ storage.ai_chats = Absent
    /\ storage.current_chat_id = NoId

\* the operations that read or assign the credential, and the reload
NextKey ==
    \/ \E t \in now..MaxClock : InitializeApp(t)
    \/ \E t \in now..MaxClock : Reload(t)
    \/ \E message \in UserTexts : SendMessage(message)
    \/ \E prompt \in Prompts : GenerateImage(prompt)
    \/ \E candidate \in CandidateKeys : SaveApiKey(candidate)
    \/ \E i \in DOMAIN inflight, r \in SettleResponses : Settle(i, r)

SpecKey == InitKey /\ [][NextKey]_vars

-----------------------------------------------------------------------------
(* A call of formatMessage(formatArg), one rule at a time *)

\* the variables of the page
appVars == <<app, now, chats, currentChatId, isGenerating, userApiKey,
             uploadedImage, storage, inflight, nDone, fresh>>

\* formatMessage has just been called with a text of FormatInputs, in a
\* page that is not otherwise looked at
InitFormat ==
    /\ app = "boot"
    /\ chats = <<>>
    /\ currentChatId = NoId
    /\ isGenerating = FALSE
    /\ userApiKey = Null
    /\ uploadedImage = FALSE
    /\ storage = EmptyStorage
    /\ now = 1
    /\ inflight = <<>>
    /\ nDone = 0
    /\ fresh = FALSE
    /\ formatArg \in FormatInputs
    /\ formatted = <<>>
    /\ step = "called"
    /\ request = <<>>
    /\ exchange = NewExchange

\* if (!content) return '';
ReturnEmpty ==
    /\ step = "called"
    /\ formatArg = <<>>
    /\ formatted' = <<>>
    /\ step' = "done"
    /\ UNCHANGED <<formatArg, appVars, request, exchange>>

\* Bold text
Bold ==
    /\ step = "called"
    /\ formatArg # <<>>
    /\ formatted' = replaceBold(formatArg, 1)
    /\ step' = "italic"
    /\ UNCHANGED <<formatArg, appVars, request, exchange>>

\* Italic text
Italic ==
    /\ step = "italic"
    /\ formatted' = replaceDelimited(formatted, 1, "_",
                                      Markup.emOpen, Markup.emClose)
    /\ step' = "strike"
    /\ UNCHANGED <<formatArg, appVars, request, exchange>>

\* Strikethrough
Strike ==
    /\ step = "strike"
    /\ formatted' = replaceDelimited(formatted, 1, "~",
                                      Markup.delOpen, Markup.delClose)
    /\ step' = "code"
    /\ UNCHANGED <<formatArg, appVars, request, exchange>>

\* Inline code
InlineCode ==
    /\ step = "code"
    /\ formatted' = replaceDelimited(formatted, 1, Backtick,
                                      Markup.codeOpen, Markup.codeClose)
    /\ step' = "blocks"
    /\ UNCHANGED <<formatArg, appVars, request, exchange>>

\* Code blocks
CodeBlocks ==
    /\ step = "blocks"
    /\ formatted' = replaceCodeBlocks(formatted, 1)
    /\ step' = "quotes"
    /\ UNCHANGED <<formatArg, appVars, request, exchange>>

\* Blockquotes
Blockquotes ==
    /\ step = "quotes"
    /\ formatted' = replaceLines("quote", formatted)
    /\ step' = "items"
    /\ UNCHANGED <<formatArg, appVars, request, exchange>>

\* Lists: the items
ListItems ==
    /\ step = "items"
    /\ formatted' = replaceLines("item", formatted)
    /\ step' = "lists"
    /\ UNCHANGED <<formatArg, appVars, request, exchange>>

\* Lists: the list around the items
ListWrap ==
    /\ step = "lists"
    /\ formatted' = replaceLines("list", formatted)
    /\ step' = "breaks"
    /\ UNCHANGED <<formatArg, appVars, request, exchange>>

\* Line breaks, and the return
LineBreaks ==
    /\ step = "breaks"
    /\ formatted' = replaceLineBreaks(formatted, 1)
    /\ step' = "done"
    /\ UNCHANGED <<formatArg, appVars, request, exchange>>

NextFormat ==
    \/ ReturnEmpty
    \/ Bold
    \/ Italic
    \/ Strike
    \/ InlineCode
    \/ CodeBlocks
    \/ Blockquotes
    \/ ListItems
    \/ ListWrap
    \/ LineBreaks

SpecFormat == InitFormat /\ [][NextFormat]_vars

-----------------------------------------------------------------------------
(* The server, one request at a time.  A path is the sequence of its       *)
(* segments.  express.json(), express.static() and the rate limiter are    *)
(* not modelled: every request has a parsed body, names no file of         *)
(* public/ and is within the limit.                                        *)

\* the requests the server is handed
Requests ==
    LET Methods == {"GET", "POST", "DELETE"}
        Paths == {<<"api", "models">>, <<"api", "chat">>,
                  <<"api", "generate-image">>, <<"api", "validate-key">>,
                  <<"api", "health">>, <<"api", "unknown">>, <<"about">>}
        Keys == {Null, "", "sk-or-v1-short"} \cup ApiKeys
    IN {[method |-> md, path |-> p,
         body |-> [apiKey |-> k, messagesIsArray |-> a, prompt |-> pr,
                   hasFile |-> FALSE]] :
            md \in Methods, p \in Paths, k \in Keys, a \in BOOLEAN,
            pr \in Prompts}

\* app.get / app.post / app.use, in the order of registration
Routes ==
    <<[method |-> "GET", path |-> <<"api", "models">>, name |-> "models"],
      [method |-> "POST", path |-> <<"api", "chat">>, name |-> "chat"],
      [method |-> "POST", path |-> <<"api", "generate-image">>,
       name |-> "generate-image"],
      [method |-> "POST", path |-> <<"api", "validate-key">>,
       name |-> "validate-key"],
      [method |-> "GET", path |-> <<"api", "health">>, name |-> "health"],
      [method |-> "GET", path |-> <<"*">>, name |-> "frontend"],
      [method |-> "ALL", path |-> <<"api", "*">>, name |-> "notfound"]>>

\* the router: the first layer, in the order of registration, whose method
\* and path match the request; "none" if there is none
Route(req) ==
    LET Matches(layer) ==
            /\ layer.method \in {"ALL", req.method}
            /\ \/ layer.path = req.path
               \/ layer.path = <<"*">>
               \/ /\ layer.path = <<"api", "*">>
                  /\ Len(req.path) >= 2
                  /\ req.path[1] = "api"
        matching == {k \in DOMAIN Routes : Matches(Routes[k])}
    IN IF matching = {} THEN "none"
       ELSE Routes[CHOOSE k \in matching : \A j \in matching : k <= j].name

\* a request arrives when the server handles none
Receive(req) ==
    /\ request = <<>> \/ exchange.res # <<>>
    /\ request' = <<req>>
    /\ exchange' = NewExchange
    /\ UNCHANGED <<appVars, renderVars>>

\* the request at hand has not been answered and the router hands it to the
\* layer called name
Dispatched(name) ==
    /\ request # <<>>
    /\ exchange.res = <<>>
    /\ Route(request[1]) = name

\* app.get('/api/models', ...)
ApiModels ==
    /\ Dispatched("models")
    /\ exchange' = resJson([NewExchange EXCEPT !.ran = "models"],
                           200, TRUE, "", "models")
    /\ UNCHANGED <<request, appVars, renderVars>>

\* app.post('/api/chat', validateApiKey, ...)
ApiChat(up) ==
    /\ Dispatched("chat")
    /\ exchange' = apiChat(request[1].body, up)
    /\ UNCHANGED <<request, appVars, renderVars>>

\* app.post('/api/generate-image', validateApiKey, ...)
ApiGenerateImage(up) ==
    /\ Dispatched("generate-image")
    /\ exchange' = apiGenerateImage(request[1].body, up)
    /\ UNCHANGED <<request, appVars, renderVars>>

\* app.post('/api/validate-key', validateApiKey, ...)
ApiValidateKey(up) ==
    /\ Dispatched("validate-key")
    /\ exchange' = apiValidateKey(request[1].body, up)
    /\ UNCHANGED <<request, appVars, renderVars>>

\* app.get('/api/health', ...)
ApiHealth ==
    /\ Dispatched("health")
    /\ exchange' = resJson([NewExchange EXCEPT !.ran = "health"],
                           200, TRUE, "", "status")
    /\ UNCHANGED <<request, appVars, renderVars>>

\* app.get('*', ...): res.sendFile(public/index.html)
ServeFrontend ==
    /\ Dispatched("frontend")
    /\ exchange' = [NewExchange EXCEPT
                       !.ran = "frontend",
                       !.res = <<[status |-> 200, file |-> "index.html"]>>]
    /\ UNCHANGED <<request, appVars, renderVars>>

\* app.use('/api/*', ...): the 404 handler
NotFound ==
    /\ Dispatched("notfound")
    /\ exchange' = resJson([NewExchange EXCEPT !.ran = "notfound"], 404, FALSE,
                           "API endpoint not found", "none")
    /\ UNCHANGED <<request, appVars, renderVars>>

\* no layer matches: the answer of express itself
NoRoute ==
    /\ Dispatched("none")
    /\ exchange' = [NewExchange EXCEPT
                       !.res = <<[status |-> 404, file |-> "none"]>>]
    /\ UNCHANGED <<request, appVars, renderVars>>

NextServer ==
    \/ \E req \in Requests : Receive(req)
    \/ ApiModels
    \/ \E up \in UpstreamOutcomes : ApiChat(up)
    \/ \E up \in UpstreamOutcomes : ApiGenerateImage(up)
    \/ \E up \in UpstreamOutcomes : ApiValidateKey(up)
    \/ ApiHealth
    \/ ServeFrontend
    \/ NotFound
    \/ NoRoute

\* the page is not loaded while the server is looked at
SpecServer == Init /\ [][NextServer]_vars

-----------------------------------------------------------------------------
(* The client of src/unnamed/part_000.  Its constructor, initializeApp,    *)
(* loadChats, createNewChat, switchChat, saveChats, the catch block of     *)
(* sendMessage and updateChatTitleFromFirstMessage read as in              *)
(* src/public/script.js, and its addMessage changes the store as the       *)
(* addMessage there; sendMessage and generateAIResponse differ.            *)

\* sendMessage() of part_000 up to the await of fetch('/api/chat'): the user
\* message goes to the display only; generateAIResponse(userMessage) maps
\* the stored messages into a new array and pushes the user message onto
\* that array
SendMessagePart000(message) ==
    /\ app = "running"
    /\ LET stored == MapGet(chats, currentChatId).messages
           body == [messages |->
                       Append([k \in DOMAIN stored |->
                                  [role |-> stored[k].role,
                                   content |-> stored[k].content]],
                              [role |-> "user", content |-> message]),
                    model |-> TheApp.model,
                    apiKey |-> userApiKey,
                    format |-> Undefined]
           H == IF Gated(TheApp) THEN [TheApp EXCEPT !.out = "gated"]
                ELSE IF NoApiKey(TheApp)
                THEN [openApiKeyModal(TheApp) EXCEPT !.out = "nokey"]
                ELSE IF message = EmptyText THEN [TheApp EXCEPT !.out = "empty"]
                ELSE IF NoCurrentChat(TheApp) THEN [TheApp EXCEPT !.out = "threw"]
                ELSE [fetch(showTypingIndicator(TheApp), "chat", message, body)
                        EXCEPT !.out = "sent"]
       IN /\ (H.out = "sent" => HasRoom)
          /\ SetApp(H)
    /\ fresh' = FALSE
    /\ UNCHANGED <<app, now, nDone, renderVars, request, exchange>>

\* the i-th outstanding request of part_000 settles with r: the rest of
\* generateAIResponse, and of sendMessage, which stores the reply with
\* addMessage('assistant', response, 'text')
SettlePart000(i, r) ==
    /\ app = "running"
    /\ LET H0 == [TheApp EXCEPT !.sent = RemoveAt(inflight, i)]
           thrown == IF r.kind = "reject" THEN NetworkErrorMsg
                     ELSE IF r.kind = "badbody" THEN ParseErrorMsg
                     ELSE IF ~ResponseOk(r) /\ r.status = 401
                     THEN ApiKeyInvalidMsg
                     ELSE OrElse(r.error, RequestFailedMsg)
           H == IF chatSucceeds(r)
                THEN LET H1 == removeTypingIndicator(H0)
                     IN IF NoCurrentChat(H1) THEN [H1 EXCEPT !.out = "threw"]
                        ELSE [updateChatTitleFromFirstMessage(
                                  addMessage(H1, "assistant", ReplyText, "text"),
                                  inflight[i].arg)
                                EXCEPT !.out = "reply"]
                ELSE catchError(
                         IF r.kind = "http" /\ ~ResponseOk(r) /\ r.status = 401
                         THEN openApiKeyModal(
                                  [H0 EXCEPT !.key = Null,
                                             !.st.user_api_key = Null])
                         ELSE H0,
                         ErrorPrefix \o thrown)
       IN SetApp(H)
    /\ nDone' = nDone + 1
    /\ fresh' = FALSE
    /\ UNCHANGED <<app, now, renderVars, request, exchange>>

NextPart000 ==
    \/ \E t \in now..MaxClock : InitializeApp(t)
    \/ \E t \in now..MaxClock : Reload(t)
    \/ \E t \in now..MaxClock : CreateNewChat(t)
    \/ \E chatId \in ChatIds : SwitchChat(chatId)
    \/ \E message \in UserTexts : SendMessagePart000(message)
    \/ \E i \in DOMAIN inflight, r \in SettleResponses : SettlePart000(i, r)

SpecPart000 == InitKey /\ [][NextPart000]_vars

-----------------------------------------------------------------------------
(* Properties *)

Running == app = "running"
Ids(chs) == {chs[i].id : i \in DOMAIN chs}
\* the conversations that exist before and after a step
Kept == Ids(chats) \cap Ids(chats')
Messages(chs, id) == MapGet(chs, id).messages
Title(chs, id) == MapGet(chs, id).title
IsAppend(old, new) == Len(new) = Len(old) + 1 /\ SubSeq(new, 1, Len(old)) = old

\* C1: in every step, the message sequence of every conversation either
\* stays as it is, gets exactly one message appended at its end, or is
\* replaced by the empty sequence in a step of clearCurrentChat.
C1_AppendOnlyOrCleared ==
    [][\A id \in Kept :
          \/ Messages(chats', id) = Messages(chats, id)
          \/ IsAppend(Messages(chats, id), Messages(chats', id))
          \/ Messages(chats', id) = <<>> /\ ClearCurrentChat]_vars

\* C2: the title of a conversation changes only in a step in which the
\* title was still 'New Chat' and the message count has just become 2
\* (so it changes at most once, and no later append alters it).
C2_TitleChangesOnceAtTwo ==
    [][\A id \in Kept :
          Title(chats', id) # Title(chats, id) =>
              /\ Title(chats, id) = NEW_CHAT
              /\ Len(Messages(chats, id)) = 1
              /\ Len(Messages(chats', id)) = 2]_vars

\* the contents of the user messages of a conversation, in stored order
RECURSIVE UserContents(_)
UserContents(msgs) ==
    IF msgs = <<>> THEN <<>>
    ELSE IF msgs[1].role = "user"
         THEN <<msgs[1].content>> \o UserContents(Tail(msgs))
         ELSE UserContents(Tail(msgs))

\* C3: whenever the sentinel title of a conversation is rewritten, the new
\* title is the content of the first user message stored in that
\* conversation, truncated to 25 characters.
C3_TitleFromFirstUserMessage ==
    [][\A id \in Kept :
          (Title(chats, id) = NEW_CHAT /\ Title(chats', id) # NEW_CHAT) =>
              /\ UserContents(Messages(chats', id)) # <<>>
              /\ Title(chats', id) =
                   truncateText(UserContents(Messages(chats', id))[1], TitleLength)]_vars

\* a handler returned without touching the store or issuing a request
ReturnedAtOnce(H) ==
    /\ H.chats = chats
    /\ H.st = storage
    /\ H.sent = inflight
    /\ H.gen = isGenerating

\* C4: at most one gated remote request is outstanding, a request is
\* outstanding only while isGenerating is true, and while isGenerating is
\* true sendMessage, generateImage and editImage return without issuing a
\* request and without appending a message, whatever the input.
C4_OneOutstanding ==
    /\ Len(inflight) <= 1
    /\ inflight # <<>> => isGenerating
    /\ isGenerating =>
          /\ \A message \in UserTexts \cup {TextHi} :
                ReturnedAtOnce(sendMessage(TheApp, message))
          /\ \A prompt \in Prompts :
                /\ ReturnedAtOnce(generateImage(TheApp, prompt))
                /\ ReturnedAtOnce(editImage(TheApp, prompt))

\* a request is outstanding and a further send has just been turned away
C4_Witness ==
    /\ Len(inflight) = 1
    /\ isGenerating
    /\ uploadedImage
    /\ userApiKey # Null
    /\ sendMessage(TheApp, TextLong).out = "gated"
    /\ editImage(TheApp, PromptCat).out = "gated"

\* C5: isGenerating is true only while a request is outstanding, and
\* whatever an outstanding request settles with (success, non-2xx,
\* success false, unparsable body, rejection; active conversation present
\* or missing), the resumed handler ends with isGenerating false and the
\* next send is not turned away by the gate.
C5_FlagResetOnEveryOutcome ==
    /\ (Running /\ inflight = <<>>) => ~isGenerating
    /\ \A i \in DOMAIN inflight, r \in Responses :
          /\ ~Resumed(i, r).gen
          /\ sendMessage(Resumed(i, r), TextLong).out # "gated"

\* a request was rejected, its error text is stored and the flag is down
C5_Witness ==
    /\ ~isGenerating
    /\ inflight = <<>>
    /\ nDone > 0
    /\ \E i \in DOMAIN chats : \E j \in DOMAIN chats[i].messages :
          /\ chats[i].messages[j].role = "assistant"
          /\ chats[i].messages[j].content = ErrorPrefix \o NetworkErrorMsg

\* C6: once the instance is initialized, currentChatId is a key of chats.
C6_CurrentChatPresent == Running => MapHas(chats, currentChatId)

\* C7: once the instance is initialized, 'ai_chats' deserializes to the
\* conversations in memory and 'current_chat_id' equals currentChatId.
C7_StorageMirrorsMemory ==
    Running =>
        /\ storage.ai_chats.kind = "array"
        /\ MapFromArray(storage.ai_chats.items) = chats
        /\ storage.current_chat_id = currentChatId

\* C8: every createNewChat adds exactly one conversation under an
\* identifier that was not in the store, leaves the existing conversations
\* as they are, and the new conversation is empty, titled 'New Chat',
\* active and persisted.
C8_CreateAllocatesFreshId ==
    [][\A t \in ChatIds :
          CreateNewChat(t) =>
              /\ ~MapHas(chats, currentChatId')
              /\ Len(chats') = Len(chats) + 1
              /\ SubSeq(chats', 1, Len(chats)) = chats
              /\ chats'[Len(chats')].id = currentChatId'
              /\ chats'[Len(chats')].messages = <<>>
              /\ chats'[Len(chats')].title = NEW_CHAT
              /\ storage'.ai_chats = JSONstringify(chats')
              /\ storage'.current_chat_id = currentChatId']_vars

\* 'ai_chats' is absent or holds an empty set
EmptyStore == storage.ai_chats \in {Absent, JSONstringify(<<>>)}

\* C9: initialization from a store whose 'ai_chats' is absent or an empty
\* set yields exactly one conversation, which is empty, titled 'New Chat'
\* and active.
C9_BootstrapOnEmptyStore ==
    [][(app = "boot" /\ app' = "running" /\ EmptyStore) =>
          /\ Len(chats') = 1
          /\ chats'[1].messages = <<>>
          /\ chats'[1].title = NEW_CHAT
          /\ currentChatId' = chats'[1].id]_vars

\* the instance has just been constructed and holds the bootstrap conversation
C9_Witness ==
    /\ fresh
    /\ nDone = 0
    /\ Len(chats) = 1
    /\ chats[1].messages = <<>>
    /\ chats[1].title = NEW_CHAT
    /\ chats[1].createdAt = now
    /\ currentChatId = chats[1].id

\* C10: a reload builds a fresh instance from the persisted state in
\* which every conversation of the old instance is present under the same
\* identifier with the same messages in the same order and the same
\* (derived) title.  (Only a reload leaves fresh true in a running page.)
C10_RoundTrip ==
    [][(fresh' /\ \E t \in ChatIds : Reload(t)) =>
          \A id \in Ids(chats) :
              /\ id \in Ids(chats')
              /\ Messages(chats', id) = Messages(chats, id)
              /\ Title(chats', id) = Title(chats, id)]_vars

\* a fresh instance holds a conversation with messages [m1, m2] and the
\* title derived from m1
C10_Witness ==
    /\ fresh
    /\ \E i \in DOMAIN chats :
          /\ Len(chats[i].messages) = 2
          /\ chats[i].messages[1] =
                [role |-> "user", content |-> TextLong, type |-> "text"]
          /\ chats[i].messages[2] =
                [role |-> "assistant", content |-> ReplyText, type |-> "text"]
          /\ chats[i].title = truncateText(TextLong, TitleLength)
          /\ chats[i].title # TextLong

\* C11: when the chat request of sendMessage settles with HTTP 401, the
\* credential is cleared in memory and in localStorage, the API-key prompt
\* is opened, and no conversation changes.
C11_UnauthorizedAppendsNothing ==
    [][\A i \in DOMAIN inflight :
          (inflight[i].op = "chat" /\ Settle(i, Response401)) =>
              /\ userApiKey' = Null
              /\ storage'.user_api_key = Null
              /\ Resumed(i, Response401).modal
              /\ chats' = chats]_vars

\* C12: whichever of the three remote operations settles with HTTP 401,
\* the credential is cleared in memory and in localStorage and the API-key
\* prompt is opened.
C12_UnauthorizedClearsKeyForAllOps ==
    [][\A i \in DOMAIN inflight :
          Settle(i, Response401) =>
              /\ userApiKey' = Null
              /\ storage'.user_api_key = Null
              /\ Resumed(i, Response401).modal]_vars

\* C13: while no credential is configured, sendMessage and generateImage,
\* whatever the input, issue no request, leave every conversation and the
\* persisted state as they are, leave isGenerating false and open the
\* API-key prompt.
C13_NoCredentialNoRequest ==
    (Running /\ userApiKey = Null) =>
        /\ ~isGenerating
        /\ \A message \in UserTexts \cup {TextHi} :
              /\ ReturnedAtOnce(sendMessage(TheApp, message))
              /\ sendMessage(TheApp, message).modal
        /\ \A prompt \in Prompts :
              /\ ReturnedAtOnce(generateImage(TheApp, prompt))
              /\ generateImage(TheApp, prompt).modal

\* a handler has run in a page without credential, and a send is refused
C13_Witness ==
    /\ Running
    /\ ~fresh
    /\ userApiKey = Null
    /\ storage.user_api_key = Null
    /\ sendMessage(TheApp, TextLong).out = "nokey"
    /\ generateImage(TheApp, PromptCat).out = "nokey"

IsPrefix(p, t) == Len(p) <= Len(t) /\ SubSeq(t, 1, Len(p)) = p

\* C14: wherever typeMessage can be called (a chat request is outstanding
\* and there is an active conversation), for every response text and
\* every unit at which the reveal loop may stop (or none), typeMessage
\* appends to the active conversation exactly one message, whose content
\* is the full text, and persists it; every text it put on display is a
\* prefix of the full text.
C14_FullTextStored ==
    ((\E i \in DOMAIN inflight : inflight[i].op = "chat")
        /\ ~NoCurrentChat(TheApp)) =>
        \A content \in ResponseTexts : \A stopAt \in 1..(Len(content) + 1) :
            LET H == typeMessageAt(TheApp, content, "assistant", "text", stopAt)
                msgs == Messages(H.chats, currentChatId)
            IN /\ IsAppend(Messages(chats, currentChatId), msgs)
               /\ msgs[Len(msgs)] =
                     [role |-> "assistant", content |-> content, type |-> "text"]
               /\ H.st.ai_chats = JSONstringify(H.chats)
               /\ \A k \in DOMAIN H.display : IsPrefix(H.display[k], content)
               /\ Len(H.display) = (IF stopAt > Len(content) THEN Len(content)
                                                             ELSE stopAt - 1) + 1

\* a reply went through typeMessage and is stored in full
C14_Witness ==
    /\ ~isGenerating
    /\ nDone > 0
    /\ ~NoCurrentChat(TheApp)
    /\ Messages(chats, currentChatId) # <<>>
    /\ LET msgs == Messages(chats, currentChatId)
       IN msgs[Len(msgs)] =
             [role |-> "assistant", content |-> ReplyText, type |-> "text"]

\* C15: when the chat request of sendMessage settles with a successful
\* response, the texts put on display pass through every prefix of the
\* response, in increasing length.
C15_RevealsEveryPrefix ==
    \A i \in DOMAIN inflight :
        inflight[i].op = "chat" =>
            LET shown == Resumed(i, Response200).display
            IN /\ \A j \in 1..Len(ReplyText) :
                     \E k \in DOMAIN shown : shown[k] = SubSeq(ReplyText, 1, j)
               /\ \A k \in DOMAIN shown : \A l \in DOMAIN shown :
                     k < l => Len(shown[k]) <= Len(shown[l])

\* network rejection, non-2xx status, or a 2xx body with success false
FailureResponses ==
    {r \in Responses : r.kind = "reject" \/ (r.kind = "http" /\ ~chatSucceeds(r))}

IsSuffix(p, t) == Len(p) <= Len(t) /\ SubSeq(t, Len(t) - Len(p) + 1, Len(t)) = p

\* C16: whichever failure an outstanding request settles with, the resumed
\* handler appends exactly one message to the active conversation, with
\* role assistant and type text, whose content ends with the error text
\* the server supplied if it supplied one, and persists it; every other
\* conversation stays as it is.
C16_FailureAppendsErrorMessage ==
    \A i \in DOMAIN inflight : \A r \in FailureResponses :
        LET H == Resumed(i, r)
        IN /\ ~NoCurrentChat(TheApp)
           /\ H.cur = currentChatId
           /\ IsAppend(Messages(chats, currentChatId),
                       Messages(H.chats, currentChatId))
           /\ \A id \in Ids(chats) \ {currentChatId} :
                 MapGet(H.chats, id) = MapGet(chats, id)
           /\ LET msgs == Messages(H.chats, currentChatId)
                  msg == msgs[Len(msgs)]
              IN /\ msg.role = "assistant"
                 /\ msg.type = "text"
                 /\ msg.content # <<>>
                 /\ r.error # <<>> => IsSuffix(r.error, msg.content)
           /\ H.st.ai_chats = JSONstringify(H.chats)

\* the handler issued exactly one request if it got past its checks, and
\* none otherwise
OneRequestIfAccepted(H) ==
    IF H.out = "sent" THEN Len(H.sent) = Len(inflight) + 1
                      ELSE H.sent = inflight

\* C17: sendMessage, generateImage and editImage issue exactly one request
\* when they accept the input and none otherwise; a handler that resumes,
\* with whatever outcome, issues no further request; and the server makes
\* at most one upstream request for a request of the client.
C17_OneRequestNoRetry ==
    /\ \A message \in UserTexts \cup {TextHi} :
          OneRequestIfAccepted(sendMessage(TheApp, message))
    /\ \A prompt \in Prompts :
          /\ OneRequestIfAccepted(generateImage(TheApp, prompt))
          /\ OneRequestIfAccepted(editImage(TheApp, prompt))
    /\ \A i \in DOMAIN inflight :
          /\ \A r \in Responses : Resumed(i, r).sent = RemoveAt(inflight, i)
          /\ \A up \in UpstreamOutcomes : Len(serve(inflight[i], up).upstream) <= 1

\* an image request is outstanding, alone, and the server forwards it once
C17_Witness ==
    /\ Len(inflight) = 1
    /\ inflight[1].op = "image"
    /\ \A up \in UpstreamOutcomes : Len(serve(inflight[1], up).upstream) = 1

\* 'ai_chats' holds something other than an array of conversation records
MalformedStore ==
    storage.ai_chats \in {MalformedBlob, NotArrayBlob, ForeignArrayBlob}

\* C18: whatever 'ai_chats' holds, the constructor runs to completion, and
\* if it holds text that is not JSON, JSON that is not an array, or an
\* array of elements that are not conversation records, the instance
\* starts with the bootstrap conversation alone.
C18_HydrationNeverRaises ==
    [][app = "boot" =>
          /\ app' = "running"
          /\ MalformedStore =>
                /\ Len(chats') = 1
                /\ chats'[1].messages = <<>>
                /\ chats'[1].title = NEW_CHAT
                /\ chats'[1].id # NoId
                /\ currentChatId' = chats'[1].id]_vars

\* C19: switchChat(id) with an id that is not a key of chats leaves
\* currentChatId and 'current_chat_id' as they are; with an id that is a
\* key it sets currentChatId to id and persists it.
C19_SwitchToAbsentChangesNothing ==
    [][\A chatId \in ChatIds :
          SwitchChat(chatId) =>
              IF MapHas(chats, chatId)
              THEN /\ currentChatId' = chatId
                   /\ storage'.current_chat_id = chatId
              ELSE /\ currentChatId' = currentChatId
                   /\ storage'.current_chat_id = storage.current_chat_id]_vars

\* C20: a step of clearCurrentChat leaves the active conversation with no
\* messages and with its identifier, title and creation timestamp, leaves
\* every other conversation, their order and the active pointer as they
\* are, and the persisted state equals the memory after the step.
C20_ClearFrame ==
    [][ClearCurrentChat =>
          /\ currentChatId' = currentChatId
          /\ Len(chats') = Len(chats)
          /\ \A i \in DOMAIN chats :
                IF chats[i].id = currentChatId
                THEN chats'[i] = [chats[i] EXCEPT !.messages = <<>>]
                ELSE chats'[i] = chats[i]
          /\ MapHas(chats, currentChatId) =>
                /\ storage'.ai_chats = JSONstringify(chats')
                /\ storage'.current_chat_id = currentChatId']_vars

\* the active conversation has a derived title and was emptied
C20_Witness ==
    /\ Running
    /\ ~fresh
    /\ MapHas(chats, currentChatId)
    /\ Messages(chats, currentChatId) = <<>>
    /\ Title(chats, currentChatId) # NEW_CHAT
    /\ Len(chats) = 2

\* role and content of the messages msgs, in order
RoleAndContent(msgs) ==
    [i \in DOMAIN msgs |-> [role |-> msgs[i].role, content |-> msgs[i].content]]

\* C21: whenever sendMessage issues its request, the body is the one
\* generateAIResponse builds from the store as sendMessage left it, and
\* whatever the selected model and the JSON mode, the messages of that body
\* are the role and content of the messages the active conversation held
\* before, in stored order (none of them has role system), followed by the
\* new user message once; the body carries the selected model, and format
\* 'json' exactly when JSON mode is on.
C21_RequestBody ==
    Running =>
        \A message \in UserTexts :
            LET H == sendMessage(TheApp, message)
                before == Messages(chats, currentChatId)
            IN H.out = "sent" =>
                  /\ H.sent[Len(H.sent)].body = requestBody(H, message)
                  /\ \A k \in DOMAIN before : before[k].role # "system"
                  /\ \A model \in Models : \A json \in BOOLEAN :
                        LET body == requestBody(WithSettings(H, model, json),
                                                message)
                        IN /\ body.messages =
                                 Append(RoleAndContent(before),
                                        [role |-> "user", content |-> message])
                           /\ body.messages =
                                 RoleAndContent(Messages(H.chats, H.cur))
                           /\ body.model = model
                           /\ (body.format = "json") = json
                           /\ body.format \in {"json", Undefined}

\* a chat request is outstanding whose body holds an earlier message and
\* the new user message, and the same send in JSON mode with the other
\* model would have carried format 'json' and that model
C21_Witness ==
    /\ Len(inflight) = 1
    /\ inflight[1].op = "chat"
    /\ Len(inflight[1].body.messages) = 2
    /\ inflight[1].body.messages[2] = [role |-> "user", content |-> TextLong]
    /\ inflight[1].body.format = Undefined
    /\ LET body == requestBody(WithSettings(TheApp, "openai/gpt-4", TRUE),
                               TextLong)
       IN body.format = "json" /\ body.model = "openai/gpt-4"
                               /\ body.messages = inflight[1].body.messages

Roles == {"user", "assistant"}
ImageTypes == {"image", "image_generation", "image_edit"}
MessageTypes == {"text"} \cup ImageTypes
\* every message of the conversations chs
AllMessages(chs) ==
    UNION {{chs[i].messages[j] : j \in DOMAIN chs[i].messages} :
              i \in DOMAIN chs}

\* C22: every message of every conversation, in memory and in the
\* persisted set, has role user or assistant and one of the four types,
\* and has a caption only if its type is an image type.
C22_MessageShape ==
    \A msg \in AllMessages(chats) \cup
                (IF storage.ai_chats.kind = "array"
                 THEN AllMessages(storage.ai_chats.items) ELSE {}) :
        /\ msg.role \in Roles
        /\ msg.type \in MessageTypes
        /\ "caption" \in DOMAIN msg => msg.type \in ImageTypes

\* a conversation holds the request for an image, without caption, and
\* the image that answered it, with its caption
C22_Witness ==
    \E i \in DOMAIN chats :
        /\ Len(chats[i].messages) = 2
        /\ chats[i].messages[1].type = "image_generation"
        /\ "caption" \notin DOMAIN chats[i].messages[1]
        /\ chats[i].messages[2].type = "image"
        /\ chats[i].messages[2].role = "assistant"
        /\ chats[i].messages[2].caption = PromptCat

\* C23: in every state of the running page, the list updateChatHistory
\* builds has one element for every conversation of the store and no
\* other, no conversation twice, and the creation timestamps of its
\* elements never increase from one element to the next.
C23_HistorySortedComplete ==
    Running =>
        LET list == updateChatHistory(chats, currentChatId)
        IN /\ Len(list) = Len(chats)
           /\ {list[k].chatId : k \in DOMAIN list} = Ids(chats)
           /\ \A k \in DOMAIN list : \A l \in DOMAIN list :
                 /\ k # l => list[k].chatId # list[l].chatId
                 /\ k < l => MapGet(chats, list[k].chatId).createdAt
                                >= MapGet(chats, list[l].chatId).createdAt

\* the store holds two conversations, the older one first, and the list
\* shows the newer one first
C23_Witness ==
    /\ Running
    /\ Len(chats) = 2
    /\ chats[1].createdAt < chats[2].createdAt
    /\ updateChatHistory(chats, currentChatId)[1].chatId = chats[2].id
    /\ updateChatHistory(chats, currentChatId)[2].chatId = chats[1].id

\* formatMessage(formatArg) has returned formatted
Returned == step = "done"
\* pat occurs in text
Contains(text, pat) == IndexOfSeq(text, pat, 1) # 0
\* text is one inline code span: a backtick, a body without backticks, a
\* backtick
IsInlineSpan(text) ==
    /\ Len(text) >= 3
    /\ text[1] = Backtick
    /\ IndexOf(text, {Backtick}, 2) = Len(text)
\* text is one fenced code block, from its opening to its closing fence
IsFence(text) == FenceClose(text, 1) # 0 /\ FenceClose(text, 1) + 2 = Len(text)
\* the body of the fenced code block text
FenceBody(text) == SubSeq(text, WordEnd(text, 4) + 1, FenceClose(text, 1) - 1)

\* C24: when formatMessage returns, the content of an inline code span is
\* in the output HTML-escaped, between the tags of inline code, and the
\* body of a fenced code block that holds HTML characters is not in the
\* output as it was written.
C24_CodeLiteralEscaped ==
    Returned =>
        /\ IsInlineSpan(formatArg) =>
              formatted = Markup.codeOpen
                            \o escapeHtml(SubSeq(formatArg, 2, Len(formatArg) - 1))
                            \o Markup.codeClose
        /\ (IsFence(formatArg)
              /\ escapeHtml(FenceBody(formatArg)) # FenceBody(formatArg)) =>
              ~Contains(formatted, trim(FenceBody(formatArg)))

\* C25: the first rule formatMessage applies to a text is the code-block
\* rule, and when it returns, the body of a fenced code block is in the
\* output as the code-block rule left it (trimmed and escaped): no inline
\* rule has rewritten it.
C25_CodeBlocksFirst ==
    [][/\ step = "called" => (CodeBlocks \/ ReturnEmpty)
       /\ (step' = "done" /\ IsFence(formatArg)) =>
              Contains(formatted', escapeHtml(trim(FenceBody(formatArg))))]_vars

\* text holds none of the characters and line starts the rules look for
IsPlain(text) ==
    /\ \A k \in DOMAIN text : text[k] \notin {"*", "_", "~", Backtick}
    /\ \A k \in DOMAIN text :
          (k = 1 \/ text[k - 1] = "\n") =>
              /\ ~OccursAt(text, <<">", " ">>, k)
              /\ ~OccursAt(text, <<"-", " ">>, k)

\* C28: when formatMessage returns the rendering of a plain text or of a
\* fenced code block, formatMessage applied to that rendering returns it
\* unchanged: nothing is escaped again and the code block is as it was.
C28_RenderIdempotent ==
    (Returned /\ (IsPlain(formatArg) \/ IsFence(formatArg))) =>
        formatMessage(formatted) = formatted

\* the request req with the credential and the messages field another
\* caller of the route may send: none, empty, too short or as the page
\* sent it; an array or not
ChatBodies(req) ==
    {[RequestBody(req) EXCEPT !.apiKey = k, !.messagesIsArray = a] :
        k \in {Null, "", "sk-short", req.apiKey}, a \in BOOLEAN}

\* the one response of exchange X is well formed, and it is a 401 exactly
\* when the completion service was asked and answered 401
ChatResponseOk(X, up) ==
    /\ Len(X.res) = 1
    /\ X.res[1].success \in BOOLEAN
    /\ X.res[1].success =>
          /\ X.res[1].status \in 200..299
          /\ X.res[1].payload = "content"
          /\ UpstreamOk(up) /\ up.body = "full"
    /\ X.res[1].status = 401 <=>
          (X.upstream # <<>> /\ up.kind = "http" /\ up.status = 401)

\* C26: for a chat request of the page, with the body as sent or with
\* another credential or messages field, and whatever the completion
\* service does, /api/chat sends exactly one response; the response has a
\* boolean success; success is true only with a 2xx status and the content
\* taken from a 2xx upstream answer; and the status is 401 exactly when
\* the completion service answered 401.
C26_ChatRouteResponse ==
    \A i \in DOMAIN inflight :
        inflight[i].op = "chat" =>
            \A body \in ChatBodies(inflight[i]), up \in UpstreamOutcomes :
                ChatResponseOk(apiChat(body, up), up)

\* a chat request is outstanding for which the route answers 200 with the
\* content, 401 on an upstream 401, 400 without a credential and 500 when
\* the upstream fetch rejects
C26_Witness ==
    /\ Len(inflight) = 1
    /\ inflight[1].op = "chat"
    /\ LET body == RequestBody(inflight[1])
           answer(b, up) == apiChat(b, up).res[1]
       IN /\ answer(body, [kind |-> "http", status |-> 200, body |-> "full"])
                = [status |-> 200, success |-> TRUE, error |-> "",
                   payload |-> "content"]
          /\ answer(body, [kind |-> "http", status |-> 401, body |-> "full"]).status
                = 401
          /\ answer([body EXCEPT !.apiKey = Null],
                    [kind |-> "http", status |-> 401, body |-> "full"]).status
                = 400
          /\ answer(body, [kind |-> "reject", status |-> 0, body |-> "notjson"]).status
                = 500

\* C27: whatever /api/edit-image answers an outstanding edit request with,
\* an answer with success true carries imageUrl; and every assistant image
\* message stored has an image reference as its content.
C27_EditSuccessHasImageUrl ==
    /\ \A i \in DOMAIN inflight :
          inflight[i].op = "edit" =>
              \A up \in UpstreamOutcomes :
                  LET res == serve(inflight[i], up).res[1]
                  IN res.success => res.payload = "imageUrl"
    /\ \A msg \in AllMessages(chats) :
          (msg.role = "assistant" /\ msg.type = "image") =>
              msg.content # UndefinedText

\* C29: in every step in which an outstanding request settles, the
\* conversation that was active when the request's user message was stored
\* is still there, and it is the only one whose messages the resumed
\* handler changes: the reply, the image or the error text is appended to
\* it, whatever switchChat and createNewChat did in between.
C29_ReplyInSameConversation ==
    [][\A i \in DOMAIN inflight, r \in SettleResponses :
          (nDone' = nDone + 1 /\ Settle(i, r)) =>
              /\ MapHas(chats', inflight[i].chat)
              /\ \A id \in Kept :
                    Messages(chats', id) # Messages(chats, id) =>
                        id = inflight[i].chat]_vars

\* C30: in every state of the running page, the messages of every
\* conversation alternate between the roles, starting with a user message:
\* the odd ones are user messages and the even ones assistant messages, so
\* every assistant message comes right after the user message it answers.
C30_RolesAlternate ==
    Running =>
        \A i \in DOMAIN chats :
            \A j \in DOMAIN chats[i].messages :
                chats[i].messages[j].role =
                    (IF j % 2 = 1 THEN "user" ELSE "assistant")

\* C31: in every step in which a chat request settles with HTTP 401 while
\* the credential in memory is another one than the request was sent with
\* (saveApiKey has stored it since), the credential stays in memory and in
\* localStorage.
C31_SavedKeySurvivesOld401 ==
    [][\A i \in DOMAIN inflight :
          (/\ inflight[i].op = "chat"
           /\ userApiKey # Null
           /\ inflight[i].apiKey # userApiKey
           /\ Settle(i, Response401)) =>
              /\ userApiKey' = userApiKey
              /\ storage'.user_api_key = storage.user_api_key]_vars

\* C32: in every state of the running page, the credential in memory is
\* the cached one: both are absent, or both hold the same value.
C32_KeyMirrorsStorage ==
    Running => userApiKey = storage.user_api_key

\* saveApiKey has replaced the credential of an earlier visit: the new one
\* is in memory and in localStorage
C32_Witness ==
    /\ Running
    /\ userApiKey \in CandidateKeys
    /\ storage.user_api_key = userApiKey
    /\ nDone >= 1

\* C33: saveApiKey stores nothing when it is called, and issues no request
\* for an empty candidate; when its validation request settles, the
\* candidate is in memory and in localStorage if the answer carries
\* success true, and the credential in memory and in localStorage is the
\* previous one after every other answer and after a rejection; and the
\* validation endpoint answers success true only for a candidate the
\* upstream service accepted.
C33_KeyStoredOnlyWhenValidated ==
    Running =>
        /\ \A candidate \in CandidateKeys :
              LET H == saveApiKey(TheApp, candidate)
              IN /\ H.key = userApiKey
                 /\ H.st = storage
                 /\ candidate = "" => H.sent = inflight
        /\ \A i \in DOMAIN inflight :
              inflight[i].op = "validate" =>
                  /\ \A r \in Responses :
                        LET H == Resumed(i, r)
                        IN IF r.kind = "http" /\ r.success
                           THEN /\ H.key = inflight[i].arg
                                /\ H.st.user_api_key = inflight[i].arg
                           ELSE /\ H.key = userApiKey
                                /\ H.st = storage
                  /\ \A up \in UpstreamOutcomes :
                        LET res == serve(inflight[i], up).res[1]
                        IN res.success => (up.kind = "http" /\ UpstreamOk(up))

\* a validation request for another credential is outstanding while one is
\* stored: a failure keeps the stored one, success replaces it
C33_Witness ==
    /\ Len(inflight) = 1
    /\ inflight[1].op = "validate"
    /\ userApiKey \in ApiKeys
    /\ inflight[1].arg \notin ApiKeys
    /\ Resumed(1, Response401).key = userApiKey
    /\ Resumed(1, Response200).key = inflight[1].arg

\* HTTP 200 from the completion service without choices[0].message
UpstreamPartial == [kind |-> "http", status |-> 200, body |-> "partial"]

\* C34: for every outstanding chat request, /api/chat answers an upstream
\* 2xx whose body lacks choices[0].message with status 500, success false
\* and the fixed text of its catch block, after one upstream request; the
\* page that receives this answer does not take it as a reply: its
\* handler ends in the catch block, and the text it shows is the error
\* text behind the Error prefix, not a reply.
C34_MalformedUpstreamIsFailure ==
    \A i \in DOMAIN inflight :
        inflight[i].op = "chat" =>
            LET X == serve(inflight[i], UpstreamPartial)
                r == AsReceived(X.res[1])
                H == Resumed(i, r)
            IN /\ X.res = <<[status |-> 500, success |-> FALSE,
                             error |-> "Service temporarily unavailable",
                             payload |-> "none"]>>
               /\ Len(X.upstream) = 1
               /\ ~chatSucceeds(r)
               /\ H.out \in {"error", "threw"}
               /\ H.out = "error" =>
                     LET msgs == MapGet(H.chats, H.cur).messages
                     IN msgs[Len(msgs)].content = ErrorPrefix \o ServerError

\* a chat request is outstanding whose malformed upstream answer ends in
\* the catch block of sendMessage with the conversation still there
C34_Witness ==
    /\ Len(inflight) = 1
    /\ inflight[1].op = "chat"
    /\ Resumed(1, AsReceived(serve(inflight[1], UpstreamPartial).res[1])).out
          = "error"
    /\ Resumed(1, Response200).out = "reply"

\* the server has answered the request it was handed
Answered == request # <<>> /\ exchange.res # <<>>

\* C35: a POST to /api/chat, /api/generate-image or /api/validate-key whose
\* body has no apiKey, or one shorter than 20 characters, is answered once,
\* with status 400 and success false, without the route handler being
\* entered, without an upstream request and without req.apiKey; every other
\* such request enters the handler of its route with req.apiKey equal to
\* the key of the body.
C35_KeyGuard ==
    (/\ Answered
     /\ request[1].method = "POST"
     /\ request[1].path \in {<<"api", "chat">>, <<"api", "generate-image">>,
                             <<"api", "validate-key">>}) =>
        LET key == request[1].body.apiKey
        IN IF key = Null \/ key = "" \/ Len(key) < 20
           THEN /\ Len(exchange.res) = 1
                /\ exchange.res[1].status = 400
                /\ exchange.res[1].success = FALSE
                /\ exchange.ran = "none"
                /\ exchange.upstream = <<>>
                /\ exchange.apiKey = Undefined
           ELSE /\ exchange.ran = request[1].path[2]
                /\ exchange.apiKey = key

\* a key of fewer than 20 characters was turned away from /api/chat
C35_Witness ==
    /\ Answered
    /\ request[1].method = "POST"
    /\ request[1].path = <<"api", "chat">>
    /\ request[1].body.apiKey = "sk-or-v1-short"
    /\ exchange.res[1].status = 400

\* C36: a request to a path under /api/ that no API route is defined for,
\* whatever its method, is answered by the 404 handler with status 404 and
\* {success: false, error: 'API endpoint not found'}.
C36_UnknownApiPathIs404 ==
    (/\ Answered
     /\ Len(request[1].path) >= 2
     /\ request[1].path[1] = "api"
     /\ Route(request[1]) \in {"frontend", "notfound", "none"}) =>
        /\ exchange.ran = "notfound"
        /\ exchange.res = <<[status |-> 404, success |-> FALSE,
                             error |-> "API endpoint not found",
                             payload |-> "none"]>>

\* C37: in every state of the running page with an active conversation,
\* addMessage and addImageMessage leave the pointer, the number and order
\* of the conversations, every conversation but the active one, and the
\* identifier, title and creation time of the active one as they are, and
\* the messages of the active one are the former ones with one more at the
\* end.
C37_AppendTouchesActiveOnly ==
    (Running /\ MapHas(chats, currentChatId)) =>
        \A role \in {"user", "assistant"} :
            \A H \in {addMessage(TheApp, role, TextHi, "text"),
                       addImageMessage(TheApp, ImageUrl, PromptCat, role)} :
                /\ H.cur = currentChatId
                /\ DOMAIN H.chats = DOMAIN chats
                /\ \A i \in DOMAIN chats :
                      IF chats[i].id # currentChatId
                      THEN H.chats[i] = chats[i]
                      ELSE /\ H.chats[i].id = chats[i].id
                           /\ H.chats[i].title = chats[i].title
                           /\ H.chats[i].createdAt = chats[i].createdAt
                           /\ Len(H.chats[i].messages)
                                 = Len(chats[i].messages) + 1
                           /\ SubSeq(H.chats[i].messages, 1,
                                     Len(chats[i].messages))
                                 = chats[i].messages

\* the active conversation is not the first of several and holds a message
C37_Witness ==
    /\ Running
    /\ Len(chats) >= 2
    /\ MapHas(chats, currentChatId)
    /\ chats[1].id # currentChatId
    /\ Len(MapGet(chats, currentChatId).messages) >= 1
    /\ Len(MapGet(addMessage(TheApp, "user", TextHi, "text").chats,
                  currentChatId).messages) >= 2

\* C38: in the client of part_000, the user message of every outstanding
\* chat request is stored in the conversation it was sent from; every
\* assistant message stored in a conversation comes after a user message;
\* and in the history a request transmits every assistant entry comes
\* after a user entry.
C38_UserMessagesStored ==
    /\ \A i \in DOMAIN inflight :
          (inflight[i].op = "chat" /\ MapHas(chats, inflight[i].chat)) =>
              LET msgs == MapGet(chats, inflight[i].chat).messages
              IN \E k \in DOMAIN msgs :
                     msgs[k].role = "user" /\ msgs[k].content = inflight[i].arg
    /\ \A c \in DOMAIN chats : \A k \in DOMAIN chats[c].messages :
          chats[c].messages[k].role = "assistant" =>
              (k > 1 /\ chats[c].messages[k - 1].role = "user")
    /\ \A i \in DOMAIN inflight :
          inflight[i].op = "chat" =>
              \A k \in DOMAIN inflight[i].body.messages :
                  inflight[i].body.messages[k].role = "assistant" =>
                      (k > 1 /\ inflight[i].body.messages[k - 1].role = "user")

====
